---- MODULE Spec2Model ----
(***************************************************************************)
(* CineMatch content-based recommender (backend/ml/recommender.py).        *)
(*                                                                         *)
(* Numbers.  Python floats are modelled in fixed point: a score in [0,1]   *)
(* is the integer 1000 times its value (Scale), a combined score is the    *)
(* weighted sum with the weights in hundredths.  The IEEE values NaN, +Inf *)
(* and -Inf and Python's None are reserved codes outside the range of any  *)
(* finite value of the model; the arithmetic below treats them as IEEE     *)
(* arithmetic does.                                                        *)
(*                                                                         *)
(* Strings.  A pipe-separated string ("Action|Comedy") is the sequence of  *)
(* its parts; the empty string is the empty sequence, and SplitPipe gives  *)
(* what str.split('|') returns for it.                                     *)
(*                                                                         *)
(* Indices are 1-based positions in movies_meta.                           *)
(***************************************************************************)
EXTENDS Integers, Sequences, FiniteSets, Bags, TLC

NaN == 1000000001
PosInf == 1000000002
NegInf == 1000000003
None == 1000000004
Missing == 1000000005

Scale == 1000

(* ---------- bounds of the model ---------- *)
MaxTopK == 6
MaxCalls == 2
MaxThreads == 2
MaxCapTopK == 9

(* ---------- float helpers ---------- *)
IsNaN(x) == x = NaN

IsInf(x) == x = PosInf \/ x = NegInf

IsFiniteAlways(x) == TRUE

IsFinite(x) == ~IsNaN(x) /\ ~IsInf(x)

FNeg(a) == IF a = NaN THEN NaN ELSE IF a = PosInf THEN NegInf ELSE IF a = NegInf THEN PosInf ELSE 0 - a

FAdd(a, b) ==
    IF IsNaN(a) \/ IsNaN(b) THEN NaN
    ELSE IF IsInf(a) THEN (IF IsInf(b) /\ b # a THEN NaN ELSE a)
    ELSE IF IsInf(b) THEN b
    ELSE a + b

FSub(a, b) == FAdd(a, FNeg(b))

\* w * a for a finite weight w > 0
FScale(w, a) == IF IsNaN(a) \/ IsInf(a) THEN a ELSE w * a

\* a < b and a > b as IEEE compares: false whenever a NaN is involved
FLess(a, b) ==
    IF IsNaN(a) \/ IsNaN(b) THEN FALSE
    ELSE IF a = b THEN FALSE
    ELSE IF a = NegInf \/ b = PosInf THEN TRUE
    ELSE IF a = PosInf \/ b = NegInf THEN FALSE
    ELSE a < b

FGreater(a, b) == FLess(b, a)

\* a / b in fixed point (the quotient times Scale), for b > 0 or b infinite
FDiv(a, b) ==
    IF IsNaN(a) \/ IsNaN(b) THEN NaN
    ELSE IF IsInf(a) THEN (IF IsInf(b) THEN NaN ELSE a)
    ELSE IF IsInf(b) THEN 0
    ELSE (a * Scale) \div b

\* numpy's min()/max() of an array: NaN as soon as one element is NaN
RECURSIVE ArrMin(_)
ArrMin(s) ==
    IF Len(s) = 1 THEN s[1]
    ELSE LET r == ArrMin(Tail(s))
         IN IF IsNaN(s[1]) \/ IsNaN(r) THEN NaN
            ELSE IF FLess(r, s[1]) THEN r ELSE s[1]

RECURSIVE ArrMax(_)
ArrMax(s) ==
    IF Len(s) = 1 THEN s[1]
    ELSE LET r == ArrMax(Tail(s))
         IN IF IsNaN(s[1]) \/ IsNaN(r) THEN NaN
            ELSE IF FGreater(r, s[1]) THEN r ELSE s[1]

NanToNum(x, nan, posinf, neginf) ==
    IF IsFinite(x) THEN x
    ELSE IF x = PosInf THEN posinf
    ELSE IF x = NegInf THEN neginf
    ELSE nan

Clip(x, lo, hi) == IF x < lo THEN lo ELSE IF x > hi THEN hi ELSE x

\* floor of the square root, by bisection: lo*lo <= x < hi*hi
RECURSIVE ISqrtBetween(_, _, _)
ISqrtBetween(x, lo, hi) ==
    IF hi - lo <= 1 THEN lo
    ELSE LET mid == (lo + hi) \div 2
         IN IF mid * mid <= x THEN ISqrtBetween(x, mid, hi) ELSE ISqrtBetween(x, lo, mid)

ISqrt(x) == ISqrtBetween(x, 0, 46340)

(* ---------- string helpers ---------- *)
Lower(s) ==
    CASE s = "Comedy" -> "comedy"
      [] s = "Action" -> "action"
      [] s = "Sci-Fi" -> "sci-fi"
      [] s = "Drama" -> "drama"
      [] s = "Western" -> "western"
      [] s = "EN" -> "en"
      [] OTHER -> s

SplitPipe(parts) == IF parts = <<>> THEN <<"">> ELSE parts

Range(s) == {s[i] : i \in 1..Len(s)}

LowerAll(s) == [i \in 1..Len(s) |-> Lower(s[i])]

RECURSIVE SumSeq(_)
SumSeq(s) == IF s = <<>> THEN 0 ELSE s[1] + SumSeq(Tail(s))

Prefix(s, n) == IF n >= Len(s) THEN s ELSE SubSeq(s, 1, n)

Min2(a, b) == IF a < b THEN a ELSE b

Max2(a, b) == IF a > b THEN a ELSE b

(* ---------- the catalog (artifacts loaded by __init__) ---------- *)
\* One row of movies_meta.json together with its row of item_features.npz
\* (tfidf and numeric are the TF-IDF and the scaled year/runtime columns;
\* the genre columns are the multi-hot encoding of genres).
Movie(id, genres, services, runtime, year, popularity, vote_count, lang, tfidf, numeric) ==
    [movieId |-> id, genres |-> genres, services |-> services, runtime |-> runtime,
     year |-> year, popularity |-> popularity, vote_count |-> vote_count,
     original_language |-> lang, tfidf |-> tfidf, numeric |-> numeric]

MainMovies ==
    << Movie(101, <<"Sci-Fi", "Action">>, <<"Netflix">>, 110, 2019, 80, Missing, "en", <<3>>, <<1, 0>>),
       Movie(102, <<"Comedy">>, <<"Hulu">>, 95, 2012, 60, Missing, "en", <<1>>, <<0, -1>>),
       Movie(103, <<"Comedy", "Drama">>, <<"Netflix", "Hulu">>, 130, 2005, 40, Missing, "fr", <<2>>, <<0, 1>>),
       Movie(104, <<"Action", "Comedy">>, <<"Netflix">>, 100, 1995, 90, Missing, "en", <<0>>, <<-1, 0>>),
       Movie(105, <<"Comedy">>, <<>>, 85, 2021, 20, Missing, "", <<1>>, <<1, -1>>),
       Movie(106, <<"Drama">>, <<"Hulu">>, NaN, None, 50, Missing, "en", <<2>>, <<0, 0>>),
       Movie(107, <<>>, <<"Netflix">>, 160, 1985, 10, Missing, "en", <<3>>, <<-1, 1>>),
       Movie(108, <<"Comedy", "Action">>, <<"Hulu">>, 200, 2015, None, Missing, "en", <<0>>, <<1, 1>>),
       Movie(109, <<"Drama", "Comedy">>, <<"Netflix">>, 120, 2000, Missing, 30, "en", <<1>>, <<0, 0>>) >>

SmallMovies ==
    << Movie(101, <<"Action">>, <<"Netflix">>, 100, 1990, 5, Missing, "en", <<1>>, <<0, 0>>),
       Movie(102, <<"Comedy">>, <<"Hulu">>, 95, 2010, PosInf, Missing, "en", <<0>>, <<0, 0>>),
       Movie(103, <<"Comedy">>, <<>>, 200, NaN, 7, Missing, "en", <<2>>, <<1, 1>>) >>

NanMovies ==
    << Movie(101, <<>>, <<"Netflix">>, None, 2020, NaN, Missing, "en", <<0>>, <<0, 0>>),
       Movie(102, <<"Comedy">>, <<"Hulu">>, 95, Missing, 3, Missing, "EN", <<1>>, <<0, 1>>) >>

Catalog(movies, classes, tfidf_size) ==
    [movies_meta |-> movies, genre_classes |-> classes, tfidf_size |-> tfidf_size]

MainCatalog == Catalog(MainMovies, <<"Action", "Comedy", "Drama", "Sci-Fi">>, 1)

SmallCatalog == Catalog(SmallMovies, <<"Action", "Comedy">>, 1)

NanCatalog == Catalog(NanMovies, <<"Comedy">>, 1)

Catalogs == {MainCatalog, SmallCatalog, NanCatalog}

NumMovies(cat) == Len(cat.movies_meta)

\* genre_mlb.transform: the multi-hot genre columns of one movie
GenreColumns(cat, m) ==
    [i \in 1..Len(cat.genre_classes) |-> IF cat.genre_classes[i] \in Range(m.genres) THEN 1 ELSE 0]

\* row idx of item_features: [TF-IDF | genres | numeric]
ItemFeatures(cat, idx) ==
    LET m == cat.movies_meta[idx]
    IN m.tfidf \o GenreColumns(cat, m) \o m.numeric

FeatureDim(cat) == cat.tfidf_size + Len(cat.genre_classes) + 2

\* movie_id_to_idx: a dict comprehension, the last row with an id wins
MovieIds(cat) == {cat.movies_meta[i].movieId : i \in 1..NumMovies(cat)}

MovieIdToIdx(cat) ==
    [mid \in MovieIds(cat) |->
        CHOOSE i \in 1..NumMovies(cat) :
            /\ cat.movies_meta[i].movieId = mid
            /\ \A j \in 1..NumMovies(cat) : cat.movies_meta[j].movieId = mid => j <= i]

(* ---------- _compute_normalized_popularity ---------- *)
RawPopularity(m) ==
    LET pop == IF m.popularity # Missing THEN m.popularity
               ELSE IF m.vote_count # Missing THEN m.vote_count ELSE 0
    IN IF pop # None THEN pop ELSE 0

MinMaxNormalize(arr, flat) ==
    LET lo == ArrMin(arr)
        hi == ArrMax(arr)
    IN IF FGreater(hi, lo)
       THEN [i \in 1..Len(arr) |-> FDiv(FSub(arr[i], lo), FSub(hi, lo))]
       ELSE flat

CurrentYear == 2024

RecencyYear(m) ==
    LET year == IF m.year = Missing THEN 2000 ELSE m.year
    IN IF year = None \/ ~IsFinite(year) THEN 2000 ELSE year

\* clip((year - 1980) / (current_year - 1980), 0, 1) * 0.2
RecencyBoost(year) ==
    IF IsNaN(year) THEN NaN
    ELSE IF year = PosInf THEN 200
    ELSE IF year = NegInf THEN 0
    ELSE (200 * Clip(year - 1980, 0, CurrentYear - 1980)) \div (CurrentYear - 1980)

ComputeNormalizedPopularity(cat) ==
    LET n == NumMovies(cat)
        popularity == [i \in 1..n |-> RawPopularity(cat.movies_meta[i])]
        normalized == MinMaxNormalize(popularity, [i \in 1..n |-> 500])
        boosted == [i \in 1..n |->
                      NanToNum(FAdd(normalized[i], RecencyBoost(RecencyYear(cat.movies_meta[i]))),
                               500, 1000, 0)]
    IN MinMaxNormalize(boosted, boosted)

(* ---------- UserPreferences ---------- *)
\* lists are sequences; runtime_min / runtime_max are None when not given
UserPreferences(liked, disliked, not_interested, genres, services, rmin, rmax, languages) ==
    [liked_movie_ids |-> liked, disliked_movie_ids |-> disliked,
     not_interested_ids |-> not_interested, preferred_genres |-> genres,
     services |-> services, runtime_min |-> rmin, runtime_max |-> rmax,
     languages |-> languages]

(* ---------- build_user_profile ---------- *)
\* A vector v of the feature space is kept as num / den with an integer
\* vector num and an integer den > 0 (a mean is a sum over a count).
ZeroVec(cat) == [d \in 1..FeatureDim(cat) |-> 0]

RECURSIVE SumRows(_, _)
SumRows(cat, idxs) ==
    IF idxs = <<>> THEN ZeroVec(cat)
    ELSE LET r == SumRows(cat, Tail(idxs))
             f == ItemFeatures(cat, idxs[1])
         IN [d \in 1..FeatureDim(cat) |-> f[d] + r[d]]

\* [x for x in items if x in allowed], for a set allowed
RECURSIVE KeepIn(_, _)
KeepIn(items, allowed) ==
    IF items = <<>> THEN <<>>
    ELSE (IF items[1] \in allowed THEN <<items[1]>> ELSE <<>>) \o KeepIn(Tail(items), allowed)

\* <<0>> stands for the KeyError of a lookup of an unknown id
LikedIndicesUnguarded(cat, prefs) ==
    IF \E i \in 1..Len(prefs.liked_movie_ids) : prefs.liked_movie_ids[i] \notin MovieIds(cat)
    THEN <<0>>
    ELSE [i \in 1..Len(prefs.liked_movie_ids) |-> MovieIdToIdx(cat)[prefs.liked_movie_ids[i]]]

\* [movie_id_to_idx[mid] for mid in liked_movie_ids if mid in movie_id_to_idx]
LikedIndices(cat, prefs) ==
    LET known == KeepIn(prefs.liked_movie_ids, MovieIds(cat))
    IN [i \in 1..Len(known) |-> MovieIdToIdx(cat)[known[i]]]

GenreIndices(cat, prefs) ==
    {i \in 1..Len(cat.genre_classes) :
        Lower(cat.genre_classes[i]) \in Range(LowerAll(prefs.preferred_genres))}

GenreBoost(cat, genre_indices) ==
    [d \in 1..FeatureDim(cat) |-> IF (d - cat.tfidf_size) \in genre_indices THEN 1 ELSE 0]

AllIndices(cat) == [i \in 1..NumMovies(cat) |-> i]

\* without the `if liked_indices:` test: liked IDs that resolve to nothing
\* still make a likes profile (of no rows)
BuildUserProfileLikesUnchecked(cat, prefs) ==
    LET liked_indices == IF prefs.liked_movie_ids # <<>> THEN LikedIndices(cat, prefs) ELSE <<>>
        genre_indices == IF prefs.preferred_genres # <<>> THEN GenreIndices(cat, prefs) ELSE {}
        n == Max2(1, Len(liked_indices))
        base == SumRows(cat, liked_indices)
        boost == GenreBoost(cat, genre_indices)
    IN IF prefs.liked_movie_ids # <<>> /\ genre_indices # {}
       THEN [kind |-> "hybrid",
             num |-> [d \in 1..FeatureDim(cat) |-> 4 * base[d] + n * boost[d]],
             den |-> 5 * n]
       ELSE IF prefs.liked_movie_ids = <<>> /\ genre_indices # {}
       THEN [kind |-> "genres", num |-> boost, den |-> 1]
       ELSE IF prefs.liked_movie_ids = <<>>
       THEN [kind |-> "cold", num |-> SumRows(cat, AllIndices(cat)), den |-> NumMovies(cat)]
       ELSE [kind |-> "likes", num |-> base, den |-> n]

BuildUserProfile(cat, prefs) ==
    LET liked_indices == IF prefs.liked_movie_ids # <<>> THEN LikedIndices(cat, prefs) ELSE <<>>
        genre_indices == IF prefs.preferred_genres # <<>> THEN GenreIndices(cat, prefs) ELSE {}
        n == Len(liked_indices)
        base == SumRows(cat, liked_indices)
        boost == GenreBoost(cat, genre_indices)
    IN IF liked_indices = <<0>>
       THEN [kind |-> "KeyError", num |-> <<>>, den |-> 1]
       ELSE IF liked_indices # <<>> /\ genre_indices # {}
       THEN [kind |-> "hybrid",
             num |-> [d \in 1..FeatureDim(cat) |-> 4 * base[d] + n * boost[d]],
             den |-> 5 * n]
       ELSE IF liked_indices = <<>> /\ genre_indices # {}
       THEN [kind |-> "genres", num |-> boost, den |-> 1]
       ELSE IF liked_indices = <<>>
       THEN [kind |-> "cold", num |-> SumRows(cat, AllIndices(cat)), den |-> NumMovies(cat)]
       ELSE [kind |-> "likes", num |-> base, den |-> n]

(* ---------- cosine_similarity (scikit-learn) ---------- *)
Dot(u, v) == SumSeq([d \in 1..Len(u) |-> u[d] * v[d]])

\* rows are normalised with a zero norm replaced by 1, so a zero vector has
\* similarity 0 with everything; the result is in fixed point
CosineSimilarity(u, v) ==
    LET uu == Dot(u, u)
        vv == Dot(v, v)
        uv == Dot(u, v)
    IN IF uu = 0 \/ vv = 0 THEN 0
       ELSE IF uv >= 0 THEN (Scale * uv) \div ISqrt(uu * vv)
       ELSE 0 - ((Scale * (0 - uv)) \div ISqrt(uu * vv))

(* ---------- compute_preference_alignment ---------- *)
NonEmptyLower(parts) == {Lower(g) : g \in {x \in Range(parts) : x # ""}}

\* genres compared as written, without lower()
GenreOverlapCaseSensitive(movie, prefs) ==
    LET movie_genres == {x \in Range(SplitPipe(movie.genres)) : x # ""}
        pref_genres == Range(prefs.preferred_genres)
        union == Cardinality(movie_genres \cup pref_genres)
    IN IF prefs.preferred_genres # <<>> /\ movie_genres # {} /\ pref_genres # {}
       THEN IF union > 0 THEN (500 * Cardinality(movie_genres \cap pref_genres)) \div union ELSE 0
       ELSE 0

GenreOverlap(movie, prefs) ==
    LET movie_genres == NonEmptyLower(SplitPipe(movie.genres))
        pref_genres == Range(LowerAll(prefs.preferred_genres))
        union == Cardinality(movie_genres \cup pref_genres)
    IN IF prefs.preferred_genres # <<>> /\ movie_genres # {} /\ pref_genres # {}
       THEN IF union > 0 THEN (500 * Cardinality(movie_genres \cap pref_genres)) \div union ELSE 0
       ELSE 0

ServiceMatch(movie, prefs) ==
    IF prefs.services # <<>> /\ Range(SplitPipe(movie.services)) \cap Range(prefs.services) # {}
    THEN 250 ELSE 0

RuntimeMatchIgnoringMax(movie, prefs) ==
    LET runtime == movie.runtime
    IN IF runtime # Missing /\ runtime # None /\ IsFinite(runtime)
       THEN IF prefs.runtime_min # None /\ FLess(runtime, prefs.runtime_min) THEN 0 ELSE 150
       ELSE 75

RuntimeMatch(movie, prefs) ==
    LET runtime == movie.runtime
    IN IF runtime # Missing /\ runtime # None /\ IsFinite(runtime)
       THEN IF \/ (prefs.runtime_min # None /\ FLess(runtime, prefs.runtime_min))
               \/ (prefs.runtime_max # None /\ FGreater(runtime, prefs.runtime_max))
            THEN 0 ELSE 150
       ELSE 75

LanguageMatch(movie, prefs) ==
    IF prefs.languages # <<>> /\ Lower(movie.original_language) \in Range(LowerAll(prefs.languages))
    THEN 100 ELSE 0

ComputePreferenceAlignment(cat, idx, prefs) ==
    LET movie == cat.movies_meta[idx]
        alignment == GenreOverlap(movie, prefs) + ServiceMatch(movie, prefs)
                     + RuntimeMatch(movie, prefs) + LanguageMatch(movie, prefs)
    IN Min2(Scale, Max2(0, alignment))

(* ---------- ranking ---------- *)
\* np.random.seed(42); np.random.random(n): the first values of the
\* Mersenne Twister stream of seed 42, in fixed point
SeededStream ==
    << 375, 951, 732, 599, 156, 156, 58, 866, 601, 708, 21, 970, 832, 212, 182,
       183, 304, 525, 432, 291, 612, 139, 292, 366, 456, 785, 200, 514, 592, 46 >>

\* the stream of a generator that was never seeded (seeded by the OS at start)
UnseededStream ==
    << 812, 44, 397, 660, 238, 905, 571, 129, 746, 318, 983, 462, 27, 694, 850,
       203, 536, 771, 88, 415, 629, 954, 342, 167, 708, 493, 61, 876, 285, 520 >>

StreamAt(rng, i) ==
    LET stream == IF rng.seeded THEN SeededStream ELSE UnseededStream
    IN stream[((rng.pos + i - 1) % Len(stream)) + 1]

\* np.random.random(n) on the global generator in state rng
RandomDraw(rng, n) == [i \in 1..n |-> StreamAt(rng, i)]

AfterDraw(rng, n) == [seeded |-> rng.seeded, pos |-> rng.pos + n]

NoSeed(rng) == rng

\* np.random.seed(42)
Seed42(rng) == [seeded |-> TRUE, pos |-> 0]

\* (w_sim, w_align, w_pop, w_noise) in hundredths
ModeWeights(mode) ==
    IF mode = "because_liked" THEN <<65, 25, 8, 2>>
    ELSE IF mode = "trending" THEN <<50, 25, 23, 2>>
    ELSE IF mode \in {"genre", "service"} THEN <<50, 40, 8, 2>>
    ELSE <<60, 30, 8, 2>>

CombinedScores(cat, popularity, prefs, mode, profile, noise) ==
    LET w == ModeWeights(mode)
    IN [i \in 1..NumMovies(cat) |->
          FAdd(FAdd(FScale(w[1], NanToNum(CosineSimilarity(profile.num, ItemFeatures(cat, i)),
                                          0, Scale, 0)),
                    FScale(w[2], ComputePreferenceAlignment(cat, i, prefs))),
               FAdd(FScale(w[3], popularity[i]), FScale(w[4], noise[i])))]

\* position of i before j in np.argsort(scores): ascending, NaN last; arrays
\* this short are sorted by insertion, which keeps equal keys in index order
AscBefore(scores, i, j) ==
    IF IsNaN(scores[i]) THEN IsNaN(scores[j]) /\ i < j
    ELSE IF IsNaN(scores[j]) THEN TRUE
    ELSE FLess(scores[i], scores[j]) \/ (scores[i] = scores[j] /\ i < j)

ArgsortAscending(scores) ==
    LET n == Len(scores)
        rank(i) == Cardinality({j \in 1..n : j # i /\ AscBefore(scores, j, i)})
    IN [p \in 1..n |-> CHOOSE i \in 1..n : rank(i) = p - 1]

\* np.argsort(scores)[::-1]
ArgsortDescending(scores) ==
    LET n == Len(scores)
        rank(i) == Cardinality({j \in 1..n : j # i /\ AscBefore(scores, j, i)})
        asc == [p \in 1..n |-> CHOOSE i \in 1..n : rank(i) = p - 1]
    IN [p \in 1..n |-> asc[n + 1 - p]]

(* ---------- filters ---------- *)
Unset == "<None>"

Truthy(param) == param # Unset /\ param # ""

\* the hard filter on the runtime bounds that apply_filters has
ExcludedOrOutsideRuntime(movie, prefs) ==
    \/ movie.movieId \in Range(prefs.not_interested_ids)
    \/ movie.movieId \in Range(prefs.liked_movie_ids)
    \/ movie.movieId \in Range(prefs.disliked_movie_ids)
    \/ (prefs.runtime_min # None /\ FLess(movie.runtime, prefs.runtime_min))
    \/ (prefs.runtime_max # None /\ FGreater(movie.runtime, prefs.runtime_max))

ExcludedOnlyNotInterested(movie, prefs) ==
    movie.movieId \in Range(prefs.not_interested_ids)

ExcludedIgnoringDislikes(movie, prefs) ==
    \/ movie.movieId \in Range(prefs.not_interested_ids)
    \/ movie.movieId \in Range(prefs.liked_movie_ids)

Excluded(movie, prefs) ==
    \/ movie.movieId \in Range(prefs.not_interested_ids)
    \/ movie.movieId \in Range(prefs.liked_movie_ids)
    \/ movie.movieId \in Range(prefs.disliked_movie_ids)

\* a missing year taken as the default year of the emitted record
FilterByYearBucketWithDefault(movie, year_bucket) ==
    LET year == IF movie.year \in {Missing, None, NaN} THEN 2000 ELSE movie.year
    IN IF year = 0 THEN FALSE
       ELSE IF year_bucket = "recent" THEN ~FLess(year, 2018)
       ELSE IF year_bucket = "2010s" THEN ~FLess(year, 2010) /\ ~FGreater(year, 2019)
       ELSE IF year_bucket = "2000s" THEN ~FLess(year, 2000) /\ ~FGreater(year, 2009)
       ELSE IF year_bucket = "90s" THEN ~FLess(year, 1990) /\ ~FGreater(year, 1999)
       ELSE IF year_bucket = "classic" THEN FLess(year, 1990)
       ELSE TRUE

FilterByYearBucket(movie, year_bucket) ==
    LET year == movie.year
    IN IF year = Missing \/ year = None \/ year = 0 THEN FALSE
       ELSE IF year_bucket = "recent" THEN ~FLess(year, 2018) /\ ~IsNaN(year)
       ELSE IF year_bucket = "2010s" THEN ~FLess(year, 2010) /\ ~FGreater(year, 2019) /\ ~IsNaN(year)
       ELSE IF year_bucket = "2000s" THEN ~FLess(year, 2000) /\ ~FGreater(year, 2009) /\ ~IsNaN(year)
       ELSE IF year_bucket = "90s" THEN ~FLess(year, 1990) /\ ~FGreater(year, 1999) /\ ~IsNaN(year)
       ELSE IF year_bucket = "classic" THEN FLess(year, 1990)
       ELSE TRUE

\* 'medium' without its lower end
FilterByRuntimeBucketOpenMedium(movie, runtime_bucket) ==
    LET runtime == movie.runtime
    IN IF runtime = Missing \/ runtime = None \/ runtime = 0 THEN FALSE
       ELSE IF runtime_bucket = "short" THEN FLess(runtime, 90)
       ELSE IF runtime_bucket = "medium" THEN FGreater(runtime, 90) /\ ~FGreater(runtime, 150) /\ ~IsNaN(runtime)
       ELSE IF runtime_bucket = "long" THEN FGreater(runtime, 150)
       ELSE TRUE

FilterByRuntimeBucket(movie, runtime_bucket) ==
    LET runtime == movie.runtime
    IN IF runtime = Missing \/ runtime = None \/ runtime = 0 THEN FALSE
       ELSE IF runtime_bucket = "short" THEN FLess(runtime, 90)
       ELSE IF runtime_bucket = "medium" THEN ~FLess(runtime, 90) /\ ~FGreater(runtime, 150) /\ ~IsNaN(runtime)
       ELSE IF runtime_bucket = "long" THEN FGreater(runtime, 150)
       ELSE TRUE

GenreFilter(movie, filter_genre) ==
    Lower(filter_genre) \in Range(LowerAll(SplitPipe(movie.genres)))

ModeFilterNoGenre(movie, req) ==
    /\ (req.mode = "service" /\ Truthy(req.filter_service))
          => req.filter_service \in Range(SplitPipe(movie.services))
    /\ (req.mode = "year" /\ Truthy(req.filter_year_bucket))
          => FilterByYearBucket(movie, req.filter_year_bucket)
    /\ (req.mode = "runtime" /\ Truthy(req.filter_runtime_bucket))
          => FilterByRuntimeBucket(movie, req.filter_runtime_bucket)

ModeFilter(movie, req) ==
    /\ (req.mode = "genre" /\ Truthy(req.filter_genre)) => GenreFilter(movie, req.filter_genre)
    /\ (req.mode = "service" /\ Truthy(req.filter_service))
          => req.filter_service \in Range(SplitPipe(movie.services))
    /\ (req.mode = "year" /\ Truthy(req.filter_year_bucket))
          => FilterByYearBucket(movie, req.filter_year_bucket)
    /\ (req.mode = "runtime" /\ Truthy(req.filter_runtime_bucket))
          => FilterByRuntimeBucket(movie, req.filter_runtime_bucket)

PreFilterFactor == 10

EarlyStopFactor == 3

CoverageFactor == 2

\* the filter loop of recommend(): keeps order, stops at 3 * top_k candidates
RECURSIVE FilterLoop(_, _, _, _, _)
FilterLoop(cat, prefs, req, top_indices, filtered) ==
    IF top_indices = <<>> THEN filtered
    ELSE LET movie == cat.movies_meta[top_indices[1]]
         IN IF Excluded(movie, prefs) \/ ~ModeFilter(movie, req)
            THEN FilterLoop(cat, prefs, req, Tail(top_indices), filtered)
            ELSE LET next == Append(filtered, top_indices[1])
                 IN IF Len(next) >= req.top_k * EarlyStopFactor THEN next
                    ELSE FilterLoop(cat, prefs, req, Tail(top_indices), next)

(* ---------- ensure_genre_coverage ---------- *)
\* the first preferred genre (in preference order) the movie carries and that
\* is not covered yet, or "" when there is none
FirstUncovered(movie_genres, preferred_lower, covered) ==
    LET hits == {i \in 1..Len(preferred_lower) :
                    preferred_lower[i] \in movie_genres /\ preferred_lower[i] \notin covered}
    IN IF hits = {} THEN ""
       ELSE preferred_lower[CHOOSE i \in hits : \A j \in hits : i <= j]

RECURSIVE SeedLoop(_, _, _, _, _)
SeedLoop(cat, ranked, preferred_lower, covered, seed_list) ==
    IF ranked = <<>> \/ Cardinality(covered) >= Len(preferred_lower) THEN seed_list
    ELSE LET movie_genres == NonEmptyLower(SplitPipe(cat.movies_meta[ranked[1]].genres))
             genre == FirstUncovered(movie_genres, preferred_lower, covered)
         IN IF genre = ""
            THEN SeedLoop(cat, Tail(ranked), preferred_lower, covered, seed_list)
            ELSE SeedLoop(cat, Tail(ranked), preferred_lower, covered \cup {genre},
                          Append(seed_list, ranked[1]))

\* the fill step without its check `idx not in seed_set`
FillLoopKeepsSeeds(ranked, seed_set, final_list, k) ==
    final_list \o Prefix(ranked, k - Len(final_list))

RECURSIVE FillLoop(_, _, _, _)
FillLoop(ranked, seed_set, final_list, k) ==
    IF ranked = <<>> \/ Len(final_list) >= k THEN final_list
    ELSE IF ranked[1] \in seed_set THEN FillLoop(Tail(ranked), seed_set, final_list, k)
    ELSE FillLoop(Tail(ranked), seed_set, Append(final_list, ranked[1]), k)

EnsureGenreCoverageNoSeeds(cat, ranked_indices, preferred_genres, k) ==
    Prefix(ranked_indices, k)

\* returns the seeds without filling the rest of the slots
EnsureGenreCoverageSeedsOnly(cat, ranked_indices, preferred_genres, k) ==
    IF preferred_genres = <<>> THEN Prefix(ranked_indices, k)
    ELSE Prefix(SeedLoop(cat, ranked_indices, LowerAll(preferred_genres), {}, <<>>), k)

EnsureGenreCoverage(cat, ranked_indices, preferred_genres, k) ==
    IF preferred_genres = <<>> THEN Prefix(ranked_indices, k)
    ELSE LET seed_list == SeedLoop(cat, ranked_indices, LowerAll(preferred_genres), {}, <<>>)
         IN Prefix(FillLoop(ranked_indices, Range(seed_list), seed_list, k), k)

(* ---------- diversify_by_genre ---------- *)
\* ''.split('|') is [''], so movie_genres is never empty and the primary
\* genre of a movie without genres is the empty string
PrimaryGenre(movie, preferred_lower) ==
    LET movie_genres == SplitPipe(movie.genres)
        hits == {i \in 1..Len(movie_genres) : Lower(movie_genres[i]) \in Range(preferred_lower)}
    IN IF hits # {} THEN Lower(movie_genres[CHOOSE i \in hits : \A j \in hits : i <= j])
       ELSE Lower(movie_genres[1])

CountOf(x, s) == Cardinality({i \in 1..Len(s) : s[i] = x})

\* primaries is the primary genre of each admitted movie (genre_counts)
RECURSIVE CapLoop(_, _, _, _, _, _, _)
CapLoop(cat, ranked, preferred_lower, k, max_per_genre, diversified, primaries) ==
    IF ranked = <<>> \/ Len(diversified) >= k THEN diversified
    ELSE LET primary_genre == PrimaryGenre(cat.movies_meta[ranked[1]], preferred_lower)
         IN IF CountOf(primary_genre, primaries) < max_per_genre
            THEN CapLoop(cat, Tail(ranked), preferred_lower, k, max_per_genre,
                         Append(diversified, ranked[1]), Append(primaries, primary_genre))
            ELSE CapLoop(cat, Tail(ranked), preferred_lower, k, max_per_genre,
                         diversified, primaries)

DiversifyNoLimit(cat, ranked_indices, preferred_genres, k, max_per_genre) ==
    CapLoop(cat, ranked_indices, LowerAll(preferred_genres), Len(ranked_indices),
            max_per_genre, <<>>, <<>>)

DiversifyByGenre(cat, ranked_indices, preferred_genres, k, max_per_genre) ==
    CapLoop(cat, ranked_indices, LowerAll(preferred_genres), k, max_per_genre, <<>>, <<>>)

MinPerGenreCap == 3

\* max(3, ceil(top_k * 0.5))
MaxPerGenreCeil(top_k) == Max2(MinPerGenreCap, (top_k + 1) \div 2)

\* max(3, int(top_k * 0.5))
MaxPerGenre(top_k) == Max2(MinPerGenreCap, top_k \div 2)

(* ---------- generate_explanation ---------- *)
\* a reason is its kind and the names it lists; the text joins them with a bullet
Reason(kind, items) == [reason |-> kind, items |-> items]

GenerateExplanation(movie, prefs) ==
    LET movie_genres == SplitPipe(movie.genres)
        movie_services == SplitPipe(movie.services)
        matching_genres == KeepIn(movie_genres, Range(prefs.preferred_genres))
        matching_services == KeepIn(movie_services, Range(prefs.services))
        reasons ==
            (IF prefs.preferred_genres # <<>> /\ matching_genres # <<>>
             THEN <<Reason("Matches your preferred genres", matching_genres)>> ELSE <<>>)
            \o (IF prefs.services # <<>> /\ matching_services # <<>>
                THEN <<Reason("Available on", matching_services)>> ELSE <<>>)
            \o (IF prefs.liked_movie_ids # <<>>
                THEN <<Reason("Similar to movies you've liked", <<>>)>> ELSE <<>>)
    IN IF reasons = <<>> THEN <<Reason("Popular", Prefix(movie_genres, 2))>> ELSE reasons

(* ---------- the emitted record ---------- *)
SanitizeForJson(x) == IF IsFinite(x) THEN x ELSE None

EmitScore(combined) == SanitizeForJson(IF ~IsFinite(combined) THEN 0 ELSE combined)

DefaultYear == 2000

DefaultRuntime == 120

EmitYear(movie) ==
    IF movie.year = Missing \/ movie.year = None \/ ~IsFinite(movie.year)
    THEN DefaultYear ELSE SanitizeForJson(movie.year)

EmitRuntime(movie) ==
    IF movie.runtime = Missing \/ movie.runtime = None \/ ~IsFinite(movie.runtime)
    THEN DefaultRuntime ELSE SanitizeForJson(movie.runtime)

BuildRecommendation(cat, idx, combined_scores, prefs) ==
    LET movie == cat.movies_meta[idx]
    IN [movie_id |-> movie.movieId,
        year |-> EmitYear(movie),
        runtime |-> EmitRuntime(movie),
        genres |-> SplitPipe(movie.genres),
        services |-> SplitPipe(movie.services),
        score |-> EmitScore(combined_scores[idx]),
        explanation |-> GenerateExplanation(movie, prefs)]

(* ---------- recommend ---------- *)
Request(top_k, mode, filter_genre, filter_service, filter_year_bucket, filter_runtime_bucket) ==
    [top_k |-> top_k, mode |-> mode, filter_genre |-> filter_genre,
     filter_service |-> filter_service, filter_year_bucket |-> filter_year_bucket,
     filter_runtime_bucket |-> filter_runtime_bucket]

Raised(error) ==
    [outcome |-> error, top_indices |-> <<>>, filtered_indices |-> <<>>,
     covered_indices |-> <<>>, final_indices |-> <<>>, recommendations |-> <<>>]

\* what one call of recommend() computes, given the cached popularity and the
\* noise vector it drew
RecommendResult(cat, popularity, prefs, req, noise) ==
    LET user_profile == BuildUserProfile(cat, prefs)
        combined_scores == CombinedScores(cat, popularity, prefs, req.mode, user_profile, noise)
        top_indices == Prefix(ArgsortDescending(combined_scores), req.top_k * PreFilterFactor)
        filtered_indices == FilterLoop(cat, prefs, req, top_indices, <<>>)
        covered_indices ==
            IF prefs.preferred_genres # <<>> /\ Len(filtered_indices) > req.top_k
            THEN EnsureGenreCoverage(cat, filtered_indices, prefs.preferred_genres,
                                     req.top_k * CoverageFactor)
            ELSE Prefix(filtered_indices, req.top_k * CoverageFactor)
        final_indices ==
            IF prefs.preferred_genres # <<>> /\ Len(covered_indices) > req.top_k
            THEN DiversifyByGenre(cat, covered_indices, prefs.preferred_genres,
                                  req.top_k, MaxPerGenre(req.top_k))
            ELSE Prefix(covered_indices, req.top_k)
    IN IF user_profile.kind = "KeyError" THEN Raised("KeyError")
       ELSE [outcome |-> "returned",
             top_indices |-> top_indices,
             filtered_indices |-> filtered_indices,
             covered_indices |-> covered_indices,
             final_indices |-> final_indices,
             recommendations |->
                 [p \in 1..Len(final_indices) |->
                     BuildRecommendation(cat, final_indices[p], combined_scores, prefs)]]

(* ---------- the inputs of the model ---------- *)
\* 999 is in no catalog
LikedChoices == {<<>>, <<101>>, <<104, 101>>, <<999>>}

\* disliked_movie_ids, not_interested_ids
FeedbackChoices == {<< <<>>, <<>> >>, << <<102>>, <<103>> >>}

\* "action" differs from the catalogs' "Action" by case only; no movie is a Western
PreferredGenreChoices ==
    {<<>>, <<"Comedy">>, <<"action">>, <<"Western">>, <<"Comedy", "action">>,
     <<"action", "Comedy", "Drama">>}

\* services, runtime_min, runtime_max, languages
SoftChoices ==
    { << <<>>, None, None, <<>> >>,
      << <<"Netflix">>, 90, 120, <<"EN">> >>,
      << <<"Hulu">>, None, 100, <<>> >> }

PrefsChoices ==
    {UserPreferences(l, f[1], f[2], g, c[1], c[2], c[3], c[4]) :
        l \in LikedChoices, f \in FeedbackChoices, g \in PreferredGenreChoices, c \in SoftChoices}

RecMode == {"because_liked", "trending", "genre", "service", "year", "runtime"}

ModeChoices ==
    { <<"because_liked", Unset, Unset, Unset, Unset>>,
      <<"trending", Unset, Unset, Unset, Unset>>,
      <<"surprise", Unset, Unset, Unset, Unset>>,
      <<"genre", Unset, Unset, Unset, Unset>>,
      <<"genre", "comedy", Unset, Unset, Unset>>,
      <<"service", Unset, "Netflix", Unset, Unset>>,
      <<"year", Unset, Unset, "2000s", Unset>>,
      <<"year", Unset, Unset, "80s", Unset>>,
      <<"runtime", Unset, Unset, Unset, "medium">>,
      <<"runtime", Unset, Unset, Unset, "epic">> }

RequestChoices ==
    {Request(k, m[1], m[2], m[3], m[4], m[5]) : k \in 1..MaxTopK, m \in ModeChoices}

(* ---------- the state machine ---------- *)
VARIABLES
    catalog,            \* the artifacts loaded by __init__
    popularity_scores,  \* _popularity_scores, computed once by __init__
    rng,                \* the state of numpy's global random generator
    prefs,              \* the UserPreferences of the caller
    request,            \* top_k, mode and the mode parameters of the caller
    calls,              \* how many times recommend() was called
    result,             \* what the last call returned, with its intermediate lists
    previous,           \* what the call before it returned
    thread_pc,          \* where each thread that runs recommend() stands
    thread_result,      \* what each thread's call returned
    users,              \* table users
    user_preferences,   \* table user_preferences
    user_feedback,      \* table user_feedback
    watchlist_items,    \* table watchlist_items
    watchlists,         \* _watchlists of routes_watchlist.py
    response,           \* the answer to the last HTTP request
    history             \* what the requests so far asked for (not program state)

recommender_vars == <<catalog, popularity_scores, rng, prefs, request, calls, result, previous>>

thread_vars == <<thread_pc, thread_result>>

db_vars == <<users, user_preferences, user_feedback, watchlist_items>>

app_vars == <<db_vars, watchlists, response, history>>

vars == <<recommender_vars, thread_vars, app_vars>>

NotCalled == Raised("not called")

NoThreads == <<>>

NoResponse == [op |-> "none", status |-> 0]

\* the process before its first HTTP request, with empty tables
AppIdle ==
    /\ users = {}
    /\ user_preferences = {}
    /\ user_feedback = EmptyBag
    /\ watchlist_items = EmptyBag
    /\ watchlists = <<>>
    /\ response = NoResponse
    /\ history = <<>>

Init ==
    /\ thread_pc = NoThreads
    /\ thread_result = NoThreads
    /\ AppIdle
    /\ catalog \in Catalogs
    /\ popularity_scores = ComputeNormalizedPopularity(catalog)
    /\ rng = [seeded |-> FALSE, pos |-> 0]
    /\ prefs \in PrefsChoices
    /\ request \in RequestChoices
    /\ calls = 0
    /\ result = NotCalled
    /\ previous = NotCalled

\* recommend(prefs, top_k, mode, filter_*)
Recommend ==
    /\ calls < MaxCalls
    /\ LET seeded == Seed42(rng)
           n == NumMovies(catalog)
       IN /\ result' = RecommendResult(catalog, popularity_scores, prefs, request,
                                       RandomDraw(seeded, n))
          /\ rng' = AfterDraw(seeded, n)
    /\ previous' = result
    /\ calls' = calls + 1
    /\ UNCHANGED <<catalog, popularity_scores, prefs, request, thread_vars, app_vars>>

Next == Recommend

Spec == Init /\ [][Next]_vars

(* ---------- recommend() called from several threads ---------- *)
\* The threads run recommend() on the one recommender of get_recommender().
\* np.random.seed and np.random.random each run under the generator's lock;
\* everything else a call touches is its own or is only read.
Threads == 1..MaxThreads

ThreadPrefsChoices ==
    { UserPreferences(<<>>, <<>>, <<>>, <<>>, <<>>, None, None, <<>>),
      UserPreferences(<<101>>, <<102>>, <<103>>, <<"Comedy", "action">>, <<"Netflix">>,
                      90, 120, <<"EN">>) }

ThreadRequestChoices ==
    {Request(k, m, Unset, Unset, Unset, Unset) : k \in 1..MaxTopK, m \in {"because_liked", "trending"}}

InitThreads ==
    /\ catalog \in Catalogs
    /\ popularity_scores = ComputeNormalizedPopularity(catalog)
    /\ rng = [seeded |-> FALSE, pos |-> 0]
    /\ prefs \in ThreadPrefsChoices
    /\ request \in ThreadRequestChoices
    /\ calls = 0
    /\ result = NotCalled
    /\ previous = NotCalled
    /\ thread_pc = [t \in Threads |-> "start"]
    /\ thread_result = [t \in Threads |-> NotCalled]
    /\ AppIdle

\* recommend() up to and including np.random.seed(42)
ThreadSeed(t) ==
    /\ thread_pc[t] = "start"
    /\ rng' = Seed42(rng)
    /\ thread_pc' = [thread_pc EXCEPT ![t] = "seeded"]
    /\ UNCHANGED <<catalog, popularity_scores, prefs, request, calls, result, previous,
                   thread_result, app_vars>>

\* np.random.random(n) and the rest of recommend()
ThreadDraw(t) ==
    /\ thread_pc[t] = "seeded"
    /\ thread_result' =
           [thread_result EXCEPT
               ![t] = RecommendResult(catalog, popularity_scores, prefs, request,
                                      RandomDraw(rng, NumMovies(catalog)))]
    /\ rng' = AfterDraw(rng, NumMovies(catalog))
    /\ thread_pc' = [thread_pc EXCEPT ![t] = "done"]
    /\ UNCHANGED <<catalog, popularity_scores, prefs, request, calls, result, previous, app_vars>>

NextThreads == \E t \in Threads : ThreadSeed(t) \/ ThreadDraw(t)

SpecThreads == InitThreads /\ [][NextThreads]_vars

(* ---------- the HTTP application: tables and dependencies ---------- *)
\* A table with an integer primary key is the set of its rows.  user_feedback
\* and watchlist_items are kept without the key and the timestamp, as the bag
\* of what remains of each row (two rows may be equal in every other column).
UserRow(id, name, email) == [id |-> id, name |-> name, email |-> email]

\* the column defaults of models.UserPreferences
DefaultPreferences(id, user_id) ==
    [id |-> id, user_id |-> user_id, preferred_genres |-> <<>>, services |-> <<>>,
     original_languages |-> <<>>, runtime_min |-> None, runtime_max |-> None]

FeedbackRow(user_id, movie_id, signal) ==
    [user_id |-> user_id, movie_id |-> movie_id, signal |-> signal]

Signals == {"like", "dislike", "not_interested"}

\* .first() found no row: get_current_user answers 401
NoUser == None

\* deps.get_current_user: the user with the id of the X-User-Id header
GetCurrentUser(user_rows, x_user_id) ==
    IF \E u \in user_rows : u.id = x_user_id
    THEN (CHOOSE u \in user_rows : u.id = x_user_id).id
    ELSE NoUser

\* two users who identified themselves earlier; the first one saved preferences
KnownUsers == {UserRow(1, "Ann", "ann@x.io"), UserRow(2, "Bob", "bob@x.io")}

KnownPreferences ==
    { [DefaultPreferences(1, 1) EXCEPT !.preferred_genres = <<"Comedy", "action">>,
                                       !.services = <<"Netflix">>],
      DefaultPreferences(2, 2) }

\* X-User-Id values of the requests; 3 is no user
UserIdChoices == {1, 2, 3}

\* the recommender of get_recommender(), loaded at startup and not called yet
RecommenderLoaded(cat) ==
    /\ catalog = cat
    /\ popularity_scores = ComputeNormalizedPopularity(cat)
    /\ rng = [seeded |-> FALSE, pos |-> 0]
    /\ prefs = UserPreferences(<<>>, <<>>, <<>>, <<>>, <<>>, None, None, <<>>)
    /\ request = Request(1, "because_liked", Unset, Unset, Unset, Unset)
    /\ calls = 0
    /\ result = NotCalled
    /\ previous = NotCalled
    /\ thread_pc = NoThreads
    /\ thread_result = NoThreads

\* the title column of movies_meta
MovieTitle(movie_id) ==
    CASE movie_id = 101 -> "Orbit"
      [] movie_id = 102 -> "Late Shift"
      [] movie_id = 106 -> "Harbour"
      [] OTHER -> "Untitled"

NotFound == [found |-> FALSE]

\* get_movie_by_id: the first row of movies_meta with the id, or None
GetMovieById(cat, movie_id) ==
    IF movie_id \in MovieIds(cat)
    THEN LET movie == cat.movies_meta[CHOOSE i \in 1..NumMovies(cat) :
                                         /\ cat.movies_meta[i].movieId = movie_id
                                         /\ \A j \in 1..(i - 1) : cat.movies_meta[j].movieId # movie_id]
         IN [found |-> TRUE, movie_id |-> movie.movieId, title |-> MovieTitle(movie.movieId),
             year |-> movie.year, runtime |-> movie.runtime,
             genres |-> SplitPipe(movie.genres), services |-> SplitPipe(movie.services)]
    ELSE NotFound

(* ---------- routes_feedback.py and GET /api/recommendations ---------- *)
FeedbackOf(table, user_id, movie_id) ==
    {r \in BagToSet(table) : r.user_id = user_id /\ r.movie_id = movie_id}

\* always inserts, without looking for the row of this user and movie
RecordFeedbackRowsNoLookup(table, user_id, movie_id, signal) ==
    table (+) SetToBag({FeedbackRow(user_id, movie_id, signal)})

\* record_feedback: the table after the call
RecordFeedbackRows(table, user_id, movie_id, signal) ==
    IF FeedbackOf(table, user_id, movie_id) # {}
    THEN LET existing == CHOOSE r \in FeedbackOf(table, user_id, movie_id) : TRUE
         IN (table (-) SetToBag({existing})) (+) SetToBag({FeedbackRow(user_id, movie_id, signal)})
    ELSE table (+) SetToBag({FeedbackRow(user_id, movie_id, signal)})

SignalRank(signal) == IF signal = "like" THEN 1 ELSE IF signal = "dislike" THEN 2 ELSE 3

\* the rows of a user as a list, every copy of a row in it; the order of the
\* rows (by movie and signal here) does not change what recommend() returns
RECURSIVE RowsInOrder(_)
RowsInOrder(table) ==
    IF BagToSet(table) = {} THEN <<>>
    ELSE LET first == CHOOSE r \in BagToSet(table) :
                          \A q \in BagToSet(table) :
                              \/ r.movie_id < q.movie_id
                              \/ (r.movie_id = q.movie_id
                                    /\ SignalRank(r.signal) <= SignalRank(q.signal))
         IN <<first>> \o RowsInOrder(table (-) SetToBag({first}))

RECURSIVE MovieIdsWithSignal(_, _)
MovieIdsWithSignal(rows, signal) ==
    IF rows = <<>> THEN <<>>
    ELSE (IF rows[1].signal = signal THEN <<rows[1].movie_id>> ELSE <<>>)
            \o MovieIdsWithSignal(Tail(rows), signal)

FeedbackRecords(table, user_id) ==
    RowsInOrder([r \in {q \in BagToSet(table) : q.user_id = user_id} |-> CopiesIn(r, table)])

DefaultRuntimeMin == 80

DefaultRuntimeMax == 180

\* `x or default` on an Optional[int] column
OrDefault(x, default) == IF x = None \/ x = 0 THEN default ELSE x

\* the MLUserPrefs that get_recommendations_for_user builds from the tables
LoadUserPreferences(preference_rows, feedback_table, user_id) ==
    LET found == {r \in preference_rows : r.user_id = user_id}
        db_prefs == CHOOSE r \in found : TRUE
        feedback_records == FeedbackRecords(feedback_table, user_id)
    IN UserPreferences(
           MovieIdsWithSignal(feedback_records, "like"),
           MovieIdsWithSignal(feedback_records, "dislike"),
           MovieIdsWithSignal(feedback_records, "not_interested"),
           IF found # {} THEN db_prefs.preferred_genres ELSE <<>>,
           IF found # {} THEN db_prefs.services ELSE <<>>,
           IF found # {} THEN OrDefault(db_prefs.runtime_min, DefaultRuntimeMin) ELSE DefaultRuntimeMin,
           IF found # {} THEN OrDefault(db_prefs.runtime_max, DefaultRuntimeMax) ELSE DefaultRuntimeMax,
           <<>>)

FeedbackMovieChoices == {101, 102}

\* limit (1..100 by the Query validation)
LimitChoices == {MaxTopK}

\* mode and its parameters, of the modes RecMode admits
ApiModeChoices ==
    { <<"because_liked", Unset, Unset, Unset, Unset>>,
      <<"genre", "comedy", Unset, Unset, Unset>> }

FeedbackPairs == {1, 2} \X FeedbackMovieChoices

InitFeedback ==
    /\ RecommenderLoaded(SmallCatalog)
    /\ users = KnownUsers
    /\ user_preferences = KnownPreferences
    /\ user_feedback = EmptyBag
    /\ watchlist_items = EmptyBag
    /\ watchlists = <<>>
    /\ response = NoResponse
    /\ history = [last_signal |-> [pair \in FeedbackPairs |-> "none"], not_interested |-> {}]

\* POST /api/feedback
RecordFeedback(x_user_id, movie_id, signal) ==
    LET current_user == GetCurrentUser(users, x_user_id)
    IN IF current_user = NoUser
       THEN /\ response' = [op |-> "record_feedback", status |-> 401]
            /\ UNCHANGED <<recommender_vars, thread_vars, db_vars, watchlists, history>>
       ELSE /\ user_feedback' = RecordFeedbackRows(user_feedback, current_user, movie_id, signal)
            /\ response' = [op |-> "record_feedback", status |-> 200, user_id |-> current_user,
                            movie_id |-> movie_id, signal |-> signal]
            /\ history' =
                   [last_signal |-> [history.last_signal EXCEPT ![<<current_user, movie_id>>] = signal],
                    not_interested |->
                        IF signal = "not_interested"
                        THEN history.not_interested \cup {<<current_user, movie_id>>}
                        ELSE history.not_interested]
            /\ UNCHANGED <<recommender_vars, thread_vars, users, user_preferences,
                           watchlist_items, watchlists>>

\* GET /api/recommendations
GetRecommendationsForUser(x_user_id, limit, mode) ==
    LET current_user == GetCurrentUser(users, x_user_id)
        ml_prefs == LoadUserPreferences(user_preferences, user_feedback, current_user)
        seeded == Seed42(rng)
        recs == RecommendResult(catalog, popularity_scores, ml_prefs,
                                Request(limit, mode[1], mode[2], mode[3], mode[4], mode[5]),
                                RandomDraw(seeded, NumMovies(catalog)))
    IN IF current_user = NoUser
       THEN /\ response' = [op |-> "get_recommendations", status |-> 401]
            /\ UNCHANGED <<recommender_vars, thread_vars, db_vars, watchlists, history>>
       ELSE /\ rng' = AfterDraw(seeded, NumMovies(catalog))
            /\ response' =
                   IF recs.outcome = "returned"
                   THEN [op |-> "get_recommendations", status |-> 200, user_id |-> current_user,
                         recommendations |-> recs.recommendations,
                         count |-> Len(recs.recommendations), mode |-> mode[1]]
                   ELSE [op |-> "get_recommendations", status |-> 500]
            /\ UNCHANGED <<catalog, popularity_scores, prefs, request, calls, result, previous,
                           thread_vars, db_vars, watchlists, history>>

NextFeedback ==
    \/ \E u \in UserIdChoices, m \in FeedbackMovieChoices, signal \in Signals :
           RecordFeedback(u, m, signal)
    \/ \E u \in UserIdChoices, limit \in LimitChoices, mode \in ApiModeChoices :
           GetRecommendationsForUser(u, limit, mode)

SpecFeedback == InitFeedback /\ [][NextFeedback]_vars

(* ---------- routes_watchlist_persistence.py ---------- *)
WatchlistRow(user_id, movie_id, title, watched) ==
    [user_id |-> user_id, movie_id |-> movie_id, title |-> title, watched |-> watched]

WatchlistOf(table, user_id, movie_id) ==
    {r \in BagToSet(table) : r.user_id = user_id /\ r.movie_id = movie_id}

\* .first() of the query for the user's row of the movie
FirstWatchlistRow(table, user_id, movie_id) ==
    CHOOSE r \in WatchlistOf(table, user_id, movie_id) : TRUE

\* always inserts, without looking for the row of this user and movie
AddToWatchlistRowsNoLookup(table, user_id, movie_id, title) ==
    table (+) SetToBag({WatchlistRow(user_id, movie_id, title, FALSE)})

\* add_to_watchlist: the table after the call
AddToWatchlistRows(table, user_id, movie_id, title) ==
    IF WatchlistOf(table, user_id, movie_id) # {} THEN table
    ELSE table (+) SetToBag({WatchlistRow(user_id, movie_id, title, FALSE)})

\* the WatchlistItemResponse built from a row: `item.title or` the catalog's title
WatchlistItemResponse(cat, row) ==
    [movie_id |-> row.movie_id,
     title |-> IF Truthy(row.title) THEN row.title
               ELSE IF GetMovieById(cat, row.movie_id).found
                    THEN GetMovieById(cat, row.movie_id).title ELSE Unset,
     watched |-> row.watched]

\* movie_id of the requests (> 0 by the Field validation); 999 is in no
\* catalog, and the persisted watchlist does not ask for that
WatchlistMovieChoices == {101, 999}

TitleChoices == {Unset, "Heat"}

InitWatchlistDb ==
    /\ RecommenderLoaded(MainCatalog)
    /\ users = KnownUsers
    /\ user_preferences = KnownPreferences
    /\ user_feedback = EmptyBag
    /\ watchlist_items = EmptyBag
    /\ watchlists = <<>>
    /\ response = NoResponse
    /\ history = [on_list_before |-> FALSE]

Answer401(op) ==
    /\ response' = [op |-> op, status |-> 401]
    /\ UNCHANGED <<recommender_vars, thread_vars, db_vars, watchlists, history>>

\* GET /api/watchlist
GetMyWatchlist(x_user_id) ==
    LET current_user == GetCurrentUser(users, x_user_id)
        items == {r \in BagToSet(watchlist_items) : r.user_id = current_user}
    IN IF current_user = NoUser THEN Answer401("get_my_watchlist")
       ELSE /\ response' = [op |-> "get_my_watchlist", status |-> 200, user_id |-> current_user,
                            count |-> BagCardinality([r \in items |-> CopiesIn(r, watchlist_items)])]
            /\ UNCHANGED <<recommender_vars, thread_vars, db_vars, watchlists, history>>

\* POST /api/watchlist
AddToWatchlistDb(x_user_id, movie_id, title) ==
    LET current_user == GetCurrentUser(users, x_user_id)
        after == AddToWatchlistRows(watchlist_items, current_user, movie_id, title)
    IN IF current_user = NoUser THEN Answer401("add_to_watchlist")
       ELSE /\ watchlist_items' = after
            /\ response' = [op |-> "add_to_watchlist", status |-> 200, user_id |-> current_user,
                            movie_id |-> movie_id,
                            item |-> WatchlistItemResponse(
                                         catalog, FirstWatchlistRow(after, current_user, movie_id))]
            /\ history' = [on_list_before |->
                               WatchlistOf(watchlist_items, current_user, movie_id) # {}]
            /\ UNCHANGED <<recommender_vars, thread_vars, users, user_preferences,
                           user_feedback, watchlists>>

\* DELETE /api/watchlist/{movie_id}
RemoveFromWatchlistDb(x_user_id, movie_id) ==
    LET current_user == GetCurrentUser(users, x_user_id)
    IN IF current_user = NoUser THEN Answer401("remove_from_watchlist")
       ELSE IF WatchlistOf(watchlist_items, current_user, movie_id) = {}
       THEN /\ response' = [op |-> "remove_from_watchlist", status |-> 404,
                            user_id |-> current_user, movie_id |-> movie_id]
            /\ UNCHANGED <<recommender_vars, thread_vars, db_vars, watchlists, history>>
       ELSE /\ watchlist_items' =
                   watchlist_items
                       (-) SetToBag({FirstWatchlistRow(watchlist_items, current_user, movie_id)})
            /\ response' = [op |-> "remove_from_watchlist", status |-> 200,
                            user_id |-> current_user, movie_id |-> movie_id]
            /\ UNCHANGED <<recommender_vars, thread_vars, users, user_preferences,
                           user_feedback, watchlists, history>>

\* POST /api/watchlist/{movie_id}/watched
MarkWatchedDb(x_user_id, movie_id) ==
    LET current_user == GetCurrentUser(users, x_user_id)
        item == FirstWatchlistRow(watchlist_items, current_user, movie_id)
        marked == [item EXCEPT !.watched = TRUE]
    IN IF current_user = NoUser THEN Answer401("mark_watched")
       ELSE IF WatchlistOf(watchlist_items, current_user, movie_id) = {}
       THEN /\ response' = [op |-> "mark_watched", status |-> 404,
                            user_id |-> current_user, movie_id |-> movie_id]
            /\ UNCHANGED <<recommender_vars, thread_vars, db_vars, watchlists, history>>
       ELSE /\ watchlist_items' = (watchlist_items (-) SetToBag({item})) (+) SetToBag({marked})
            /\ response' = [op |-> "mark_watched", status |-> 200, user_id |-> current_user,
                            movie_id |-> movie_id,
                            item |-> WatchlistItemResponse(catalog, marked)]
            /\ UNCHANGED <<recommender_vars, thread_vars, users, user_preferences,
                           user_feedback, watchlists, history>>

NextWatchlistDb ==
    \/ \E u \in UserIdChoices : GetMyWatchlist(u)
    \/ \E u \in UserIdChoices, m \in WatchlistMovieChoices, title \in TitleChoices :
           AddToWatchlistDb(u, m, title)
    \/ \E u \in UserIdChoices, m \in WatchlistMovieChoices : RemoveFromWatchlistDb(u, m)
    \/ \E u \in UserIdChoices, m \in WatchlistMovieChoices : MarkWatchedDb(u, m)

SpecWatchlistDb == InitWatchlistDb /\ [][NextWatchlistDb]_vars

(* ---------- routes_watchlist.py: the in-memory watchlist ---------- *)
\* _watchlists is a function from the user ids that have a list to their
\* lists; a list is a function from its movie ids to the items.
EmptyDict == <<>>

\* get_watchlist: the count of the answer
WatchlistCount(lists, user_id) ==
    IF user_id \notin DOMAIN lists THEN 0 ELSE Cardinality(DOMAIN lists[user_id])

\* if user_id not in _watchlists: _watchlists[user_id] = {}
WithUser(lists, user_id) ==
    IF user_id \in DOMAIN lists THEN lists
    ELSE [u \in DOMAIN lists \cup {user_id} |-> IF u = user_id THEN EmptyDict ELSE lists[u]]

\* _watchlists[user_id][movie_id] = item
PutItem(lists, user_id, movie_id, item) ==
    [lists EXCEPT ![user_id] =
        [m \in DOMAIN lists[user_id] \cup {movie_id} |->
            IF m = movie_id THEN item ELSE lists[user_id][m]]]

\* drops the user's whole list instead of the one movie
DeleteItemClearsList(lists, user_id, movie_id) ==
    [lists EXCEPT ![user_id] = EmptyDict]

\* del _watchlists[user_id][movie_id]
DeleteItem(lists, user_id, movie_id) ==
    [lists EXCEPT ![user_id] =
        [m \in DOMAIN lists[user_id] \ {movie_id} |-> lists[user_id][m]]]

InList(lists, user_id, movie_id) ==
    user_id \in DOMAIN lists /\ movie_id \in DOMAIN lists[user_id]

\* schemas.watchlist.WatchlistItem declares year: int and runtime: int
ValidWatchlistItem(movie) ==
    /\ movie.year \notin {None, NaN, PosInf, NegInf}
    /\ movie.runtime \notin {None, NaN, PosInf, NegInf}

MemoryUserChoices == {"ann", "bob"}

\* 106 is in the catalog without a year and a runtime, 999 is not in it
MemoryMovieChoices == {101, 102, 106, 999}

InitWatchlist ==
    /\ RecommenderLoaded(MainCatalog)
    /\ users = {}
    /\ user_preferences = {}
    /\ user_feedback = EmptyBag
    /\ watchlist_items = EmptyBag
    /\ watchlists = EmptyDict
    /\ response = NoResponse
    /\ history = [added |-> {}]

\* GET /api/watchlist/{user_id}
GetWatchlist(user_id) ==
    /\ response' = [op |-> "get_watchlist", status |-> 200, user_id |-> user_id,
                    count |-> WatchlistCount(watchlists, user_id)]
    /\ UNCHANGED <<recommender_vars, thread_vars, db_vars, watchlists, history>>

\* POST /api/watchlist/{user_id}
AddToWatchlist(user_id, movie_id) ==
    LET movie == GetMovieById(catalog, movie_id)
        ack(status) == [op |-> "add_to_watchlist", status |-> status, user_id |-> user_id,
                        movie_id |-> movie_id]
    IN IF ~movie.found
       THEN /\ response' = ack(404)
            /\ UNCHANGED <<recommender_vars, thread_vars, db_vars, watchlists, history>>
       ELSE IF InList(watchlists, user_id, movie_id)
       THEN /\ response' = ack(200)
            /\ history' = [added |-> history.added \cup {<<user_id, movie_id>>}]
            /\ UNCHANGED <<recommender_vars, thread_vars, db_vars, watchlists>>
       ELSE IF ~ValidWatchlistItem(movie)
       THEN \* WatchlistItem(...) raises after the user's list was created
            /\ watchlists' = WithUser(watchlists, user_id)
            /\ response' = ack(500)
            /\ UNCHANGED <<recommender_vars, thread_vars, db_vars, history>>
       ELSE /\ watchlists' = PutItem(WithUser(watchlists, user_id), user_id, movie_id,
                                      [movie_id |-> movie.movie_id, title |-> movie.title,
                                       watched |-> FALSE])
            /\ response' = ack(200)
            /\ history' = [added |-> history.added \cup {<<user_id, movie_id>>}]
            /\ UNCHANGED <<recommender_vars, thread_vars, db_vars>>

\* DELETE /api/watchlist/{user_id}/{movie_id}
RemoveFromWatchlist(user_id, movie_id) ==
    IF ~InList(watchlists, user_id, movie_id)
    THEN /\ response' = [op |-> "remove_from_watchlist", status |-> 404, user_id |-> user_id,
                         movie_id |-> movie_id]
         /\ UNCHANGED <<recommender_vars, thread_vars, db_vars, watchlists, history>>
    ELSE /\ watchlists' = DeleteItem(watchlists, user_id, movie_id)
         /\ response' = [op |-> "remove_from_watchlist", status |-> 200, user_id |-> user_id,
                         movie_id |-> movie_id]
         /\ history' = [added |-> history.added \ {<<user_id, movie_id>>}]
         /\ UNCHANGED <<recommender_vars, thread_vars, db_vars>>

\* PUT /api/watchlist/{user_id}/{movie_id}/watched
MarkWatched(user_id, movie_id, watched) ==
    IF ~InList(watchlists, user_id, movie_id)
    THEN /\ response' = [op |-> "mark_watched", status |-> 404, user_id |-> user_id,
                         movie_id |-> movie_id]
         /\ UNCHANGED <<recommender_vars, thread_vars, db_vars, watchlists, history>>
    ELSE /\ watchlists' = [watchlists EXCEPT ![user_id][movie_id].watched = watched]
         /\ response' = [op |-> "mark_watched", status |-> 200, user_id |-> user_id,
                         movie_id |-> movie_id, watched |-> watched]
         /\ UNCHANGED <<recommender_vars, thread_vars, db_vars, history>>

NextWatchlist ==
    \/ \E u \in MemoryUserChoices : GetWatchlist(u)
    \/ \E u \in MemoryUserChoices, m \in MemoryMovieChoices : AddToWatchlist(u, m)
    \/ \E u \in MemoryUserChoices, m \in MemoryMovieChoices : RemoveFromWatchlist(u, m)
    \/ \E u \in MemoryUserChoices, m \in MemoryMovieChoices, watched \in BOOLEAN :
           MarkWatched(u, m, watched)

SpecWatchlist == InitWatchlist /\ [][NextWatchlist]_vars

(* ---------- routes_auth.py: identify_user ---------- *)
\* str.strip() on the names of the requests
Strip(name) ==
    CASE name = "  " -> ""
      [] name = " Ann " -> "Ann"
      [] name = " Bob" -> "Bob"
      [] OTHER -> name

\* user_data.name and user_data.name.strip()
NonBlank(name) == Truthy(name) /\ Strip(name) # ""

\* looks no user up: every email is taken for a new one
FindUserByEmailNever(user_rows, email) == NoUser

\* db.query(User).filter(User.email == user_data.email).first()
FindUserByEmail(user_rows, email) ==
    IF \E u \in user_rows : u.email = email
    THEN (CHOOSE u \in user_rows : u.email = email).id
    ELSE NoUser

UserWithId(user_rows, id) == CHOOSE u \in user_rows : u.id = id

\* the autoincrement primary key of a table whose rows are never deleted
NextId(rows) == Cardinality(rows) + 1

EmailChoices == {"ann@x.io", "bob@x.io", "cat@x.io"}

\* UserIdentify.name is optional with min_length=1: "" never reaches the handler
NameChoices == {Unset, "  ", "Ann", " Ann ", " Bob"}

InitAuth ==
    /\ RecommenderLoaded(SmallCatalog)
    /\ users = {}
    /\ user_preferences = {}
    /\ user_feedback = EmptyBag
    /\ watchlist_items = EmptyBag
    /\ watchlists = <<>>
    /\ response = NoResponse
    /\ history = [email |-> Unset, name |-> Unset]

\* POST /auth/identify
IdentifyUser(email, name) ==
    LET id == FindUserByEmail(users, email)
    IN /\ history' = [email |-> email, name |-> name]
       /\ IF id # NoUser
          THEN LET user == UserWithId(users, id)
                   renamed == IF NonBlank(name) /\ user.name # name
                              THEN [user EXCEPT !.name = Strip(name)]
                              ELSE user
               IN /\ users' = (users \ {user}) \cup {renamed}
                  /\ response' = [op |-> "identify_user", status |-> 200, user |-> renamed]
                  /\ UNCHANGED user_preferences
          ELSE IF ~NonBlank(name)
          THEN /\ response' = [op |-> "identify_user", status |-> 404]
               /\ UNCHANGED <<users, user_preferences>>
          ELSE LET new_user == UserRow(NextId(users), Strip(name), email)
               IN /\ users' = users \cup {new_user}
                  /\ user_preferences' = user_preferences \cup
                         {DefaultPreferences(NextId(user_preferences), new_user.id)}
                  /\ response' = [op |-> "identify_user", status |-> 200, user |-> new_user]
       /\ UNCHANGED <<recommender_vars, thread_vars, user_feedback, watchlist_items, watchlists>>

NextAuth == \E email \in EmailChoices, name \in NameChoices : IdentifyUser(email, name)

SpecAuth == InitAuth /\ [][NextAuth]_vars

(* ---------- recommend() on a catalog of comedies ---------- *)
\* four comedies that each carry a second genre, and two films of another kind
GenreMovies ==
    << Movie(201, <<"Comedy", "Action">>, <<"Netflix">>, 100, 2010, 90, Missing, "en", <<1>>, <<0, 0>>),
       Movie(202, <<"Comedy", "Action">>, <<"Netflix">>, 100, 2010, 80, Missing, "en", <<1>>, <<0, 0>>),
       Movie(203, <<"Comedy", "Drama">>, <<"Netflix">>, 100, 2010, 60, Missing, "en", <<1>>, <<0, 0>>),
       Movie(204, <<"Comedy", "Sci-Fi">>, <<"Netflix">>, 100, 2010, 40, Missing, "en", <<1>>, <<0, 0>>),
       Movie(205, <<"Western">>, <<"Hulu">>, 100, 2010, 20, Missing, "en", <<1>>, <<0, 0>>),
       Movie(206, <<>>, <<"Hulu">>, 100, 2010, 10, Missing, "en", <<1>>, <<0, 0>>) >>

GenreCatalog == Catalog(GenreMovies, <<"Action", "Comedy", "Drama", "Sci-Fi", "Western">>, 1)

\* eleven dramas, more than the 10 * top_k scores that top_k = 1 keeps; the
\* last one is by far the least popular
LongMovies ==
    [i \in 1..11 |->
        Movie(300 + i, <<"Drama">>, <<"Netflix">>, 100, 2010, IF i = 11 THEN 0 ELSE 101 - i,
              Missing, "en", <<1>>, <<0, 0>>)]

LongCatalog == Catalog(LongMovies, <<"Drama">>, 1)

TenMostPopular == [i \in 1..10 |-> 300 + i]

ManyGenreChoices ==
    {<<"Comedy", "Action", "Drama", "Sci-Fi">>, <<"Sci-Fi", "Drama", "Action", "Comedy">>,
     <<"Comedy", "Action", "Drama">>, <<"Western", "Sci-Fi">>, <<"Comedy">>, <<>>}

GenrePrefsChoices ==
    {UserPreferences(l, <<>>, n, g, <<>>, None, None, <<>>) :
        l \in {<<>>, <<205>>}, n \in {<<>>, <<206>>, TenMostPopular}, g \in ManyGenreChoices}

GenreRequestChoices ==
    {Request(k, m[1], m[2], Unset, Unset, Unset) :
        k \in 1..MaxTopK,
        m \in {<<"because_liked", Unset>>, <<"trending", Unset>>, <<"genre", "comedy">>}}

InitGenres ==
    /\ thread_pc = NoThreads
    /\ thread_result = NoThreads
    /\ AppIdle
    /\ catalog \in {GenreCatalog, LongCatalog}
    /\ popularity_scores = ComputeNormalizedPopularity(catalog)
    /\ rng = [seeded |-> FALSE, pos |-> 0]
    /\ prefs \in GenrePrefsChoices
    /\ request \in GenreRequestChoices
    /\ calls = 0
    /\ result = NotCalled
    /\ previous = NotCalled

SpecGenres == InitGenres /\ [][Next]_vars

(* ---------- routes_recs.py: the legacy POST /api/recommendations ---------- *)
LegacyTopK == 20

\* raise HTTPException(status_code=...)
HTTPException(status_code) == [raised |-> "HTTPException", status_code |-> status_code]

\* the request body: schemas.recs.UserPreferences
LegacyBody(user_id, liked, disliked, genres, services, rmin, rmax) ==
    [user_id |-> user_id, liked_movie_ids |-> liked, disliked_movie_ids |-> disliked,
     preferred_genres |-> genres, services |-> services, runtime_min |-> rmin,
     runtime_max |-> rmax]

LegacyBodyChoices ==
    {LegacyBody(u, l, d, g, c[1], c[2], c[3]) :
        u \in {Unset, "", "ann"}, l \in {<<>>, <<101>>}, d \in {<<>>, <<102>>},
        g \in {<<>>, <<"Comedy">>, <<"action">>}, c \in SoftChoices}

\* the body of the try block: what it returns, or the exception it raises
LegacyTry(cat, popularity, preferences, noise) ==
    IF ~Truthy(preferences.user_id) THEN HTTPException(400)
    ELSE LET ml_prefs == UserPreferences(preferences.liked_movie_ids,
                                         preferences.disliked_movie_ids, <<>>,
                                         preferences.preferred_genres, preferences.services,
                                         preferences.runtime_min, preferences.runtime_max, <<>>)
             recs == RecommendResult(cat, popularity, ml_prefs,
                                     Request(LegacyTopK, "because_liked", Unset, Unset, Unset, Unset),
                                     noise)
         IN IF recs.outcome # "returned" THEN [raised |-> recs.outcome]
            ELSE [raised |-> "nothing", recommendations |-> recs.recommendations]

\* the answer of the route: except Exception catches the HTTPException too
LegacyAnswer(tried) ==
    IF tried.raised # "nothing"
    THEN [op |-> "get_recommendations_legacy", status |-> 500]
    ELSE [op |-> "get_recommendations_legacy", status |-> 200,
          count |-> Len(tried.recommendations),
          recommendations |-> tried.recommendations]

InitLegacy ==
    /\ RecommenderLoaded(SmallCatalog)
    /\ AppIdle

\* POST /api/recommendations
GetRecommendationsLegacy(preferences) ==
    LET called == Truthy(preferences.user_id)
        seeded == IF called THEN Seed42(rng) ELSE rng
        n == NumMovies(catalog)
        tried == LegacyTry(catalog, popularity_scores, preferences, RandomDraw(seeded, n))
    IN /\ rng' = IF called THEN AfterDraw(seeded, n) ELSE rng
       /\ calls' = IF called THEN 1 ELSE calls
       /\ response' = LegacyAnswer(tried)
       /\ history' = [body |-> preferences]
       /\ UNCHANGED <<catalog, popularity_scores, prefs, request, result, previous,
                      thread_vars, db_vars, watchlists>>

NextLegacy == \E preferences \in LegacyBodyChoices : GetRecommendationsLegacy(preferences)

SpecLegacy == InitLegacy /\ [][NextLegacy]_vars

(* ---------- the cap pass on its own ---------- *)
\* score orders of the nine movies of the main catalog, and of five comedies
RankedChoices ==
    {<<1, 2, 3, 4, 5, 6, 7, 8, 9>>, <<9, 8, 7, 6, 5, 4, 3, 2, 1>>,
     <<7, 2, 3, 4, 5, 8, 9, 1, 6>>, <<2, 3, 5, 8, 9>>}

CapGenreChoices == {<<"Comedy">>, <<"action">>, <<"Comedy", "action">>, <<"Western">>}

Covered(ranked) ==
    [outcome |-> "covered", top_indices |-> <<>>, filtered_indices |-> <<>>,
     covered_indices |-> ranked, final_indices |-> <<>>, recommendations |-> <<>>]

InitCap ==
    /\ thread_pc = NoThreads
    /\ thread_result = NoThreads
    /\ AppIdle
    /\ catalog = MainCatalog
    /\ popularity_scores = ComputeNormalizedPopularity(catalog)
    /\ rng = [seeded |-> FALSE, pos |-> 0]
    /\ \E g \in CapGenreChoices :
           prefs = UserPreferences(<<>>, <<>>, <<>>, g, <<>>, None, None, <<>>)
    /\ \E k \in 1..MaxCapTopK :
           request = Request(k, "because_liked", Unset, Unset, Unset, Unset)
    /\ calls = 0
    /\ \E ranked \in RankedChoices : result = Covered(ranked)
    /\ previous = NotCalled

\* step 2 of recommend(): max_per_genre and diversify_by_genre
CapPass ==
    /\ result.outcome = "covered"
    /\ LET max_per_genre == MaxPerGenre(request.top_k)
       IN result' = [outcome |-> "capped",
                     covered_indices |-> result.covered_indices,
                     max_per_genre |-> max_per_genre,
                     final_indices |->
                         DiversifyByGenre(catalog, result.covered_indices,
                                          prefs.preferred_genres, request.top_k,
                                          max_per_genre)]
    /\ UNCHANGED <<catalog, popularity_scores, rng, prefs, request, calls, previous,
                   thread_vars, app_vars>>

NextCap == CapPass

SpecCap == InitCap /\ [][NextCap]_vars

(* ---------- two requests for one user and movie at the same time ---------- *)
\* The routes are plain `def` handlers, which FastAPI runs in a thread pool,
\* each with its own session; the lookup and the commit of a request are two
\* steps, and the tables have no unique constraint on (user_id, movie_id).
RaceRequestChoices ==
    {[route |-> "record_feedback", signal |-> sig] : sig \in Signals}
        \cup {[route |-> "add_to_watchlist", title |-> t] : t \in TitleChoices}

\* the user and the movie of both requests
RacePair == <<1, 101>>

RaceUserId == RacePair[1]

RaceMovieId == RacePair[2]

InitRace ==
    /\ catalog = SmallCatalog
    /\ popularity_scores = ComputeNormalizedPopularity(catalog)
    /\ rng = [seeded |-> FALSE, pos |-> 0]
    /\ prefs = UserPreferences(<<>>, <<>>, <<>>, <<>>, <<>>, None, None, <<>>)
    /\ request = Request(1, "because_liked", Unset, Unset, Unset, Unset)
    /\ calls = 0
    /\ result = NotCalled
    /\ previous = NotCalled
    /\ thread_pc = [t \in Threads |-> "start"]
    /\ thread_result = [t \in Threads |-> [existing |-> FALSE]]
    /\ users = KnownUsers
    /\ user_preferences = KnownPreferences
    /\ user_feedback = EmptyBag
    /\ watchlist_items = EmptyBag
    /\ watchlists = <<>>
    /\ response = NoResponse
    /\ history \in [Threads -> RaceRequestChoices]

\* existing = db.query(...).filter(user_id, movie_id).first()
RaceLookup(t) ==
    /\ thread_pc[t] = "start"
    /\ thread_result' =
           [thread_result EXCEPT
               ![t] = [existing |->
                          IF history[t].route = "record_feedback"
                          THEN FeedbackOf(user_feedback, RaceUserId, RaceMovieId) # {}
                          ELSE WatchlistOf(watchlist_items, RaceUserId, RaceMovieId) # {}]]
    /\ thread_pc' = [thread_pc EXCEPT ![t] = "looked"]
    /\ UNCHANGED <<recommender_vars, app_vars>>

\* the rest of the handler: update the row found, or db.add(...) and db.commit()
RaceCommit(t) ==
    /\ thread_pc[t] = "looked"
    /\ IF history[t].route = "record_feedback"
       THEN /\ user_feedback' =
                  IF thread_result[t].existing
                  THEN RecordFeedbackRows(user_feedback, RaceUserId, RaceMovieId,
                                          history[t].signal)
                  ELSE user_feedback (+)
                          SetToBag({FeedbackRow(RaceUserId, RaceMovieId, history[t].signal)})
            /\ UNCHANGED watchlist_items
       ELSE /\ watchlist_items' =
                  IF thread_result[t].existing
                  THEN watchlist_items
                  ELSE watchlist_items (+)
                          SetToBag({WatchlistRow(RaceUserId, RaceMovieId, history[t].title,
                                                 FALSE)})
            /\ UNCHANGED user_feedback
    /\ thread_pc' = [thread_pc EXCEPT ![t] = "done"]
    /\ response' = [op |-> history[t].route, status |-> 200]
    /\ UNCHANGED <<recommender_vars, thread_result, users, user_preferences, watchlists,
                   history>>

NextRace == \E t \in Threads : RaceLookup(t) \/ RaceCommit(t)

SpecRace == InitRace /\ [][NextRace]_vars

(* ---------- the bucket filters on their own ---------- *)
YearBuckets == {"recent", "2010s", "2000s", "90s", "classic"}

RuntimeBuckets == {"short", "medium", "long"}

\* the ends of every bucket, a year zero and the values of a missing year
YearChoices ==
    {0, 1, 1889, 1989, 1990, 1999, 2000, 2009, 2010, 2017, 2018, 2019, 2020, 2024, None, NaN}

RuntimeChoices == {0, 1, 89, 90, 120, 150, 151, 240, None, NaN}

BucketCatalog(year, runtime) ==
    Catalog(<<Movie(101, <<"Drama">>, <<"Netflix">>, runtime, year, 5, Missing, "en",
                    <<1>>, <<0, 0>>)>>,
            <<"Drama">>, 1)

InitBuckets ==
    /\ \E year \in YearChoices, runtime \in RuntimeChoices :
           RecommenderLoaded(BucketCatalog(year, runtime))
    /\ AppIdle

\* filter_by_year_bucket(movie, b) for each of the year buckets
YearBucketsOf ==
    /\ result' = [outcome |-> "year buckets",
                  accepted |-> {b \in YearBuckets :
                                   FilterByYearBucket(catalog.movies_meta[1], b)}]
    /\ UNCHANGED <<catalog, popularity_scores, rng, prefs, request, calls, previous,
                   thread_vars, app_vars>>

\* filter_by_runtime_bucket(movie, b) for each of the runtime buckets
RuntimeBucketsOf ==
    /\ result' = [outcome |-> "runtime buckets",
                  accepted |-> {b \in RuntimeBuckets :
                                   FilterByRuntimeBucket(catalog.movies_meta[1], b)}]
    /\ UNCHANGED <<catalog, popularity_scores, rng, prefs, request, calls, previous,
                   thread_vars, app_vars>>

NextBuckets == YearBucketsOf \/ RuntimeBucketsOf

SpecBuckets == InitBuckets /\ [][NextBuckets]_vars

(* ---------- properties ---------- *)
Returned == calls >= 1 /\ result.outcome = "returned"

Recs == result.recommendations

RecIds == {Recs[p].movie_id : p \in 1..Len(Recs)}

HardExcludedIds ==
    Range(prefs.not_interested_ids) \cup Range(prefs.liked_movie_ids)
        \cup Range(prefs.disliked_movie_ids)

GenreModeWithValue == request.mode = "genre" /\ Truthy(request.filter_genre)

CoverageRan == prefs.preferred_genres # <<>> /\ Len(result.filtered_indices) > request.top_k

CapRan == prefs.preferred_genres # <<>> /\ Len(result.covered_indices) > request.top_k

\* C2: in mode 'genre' with a filter_genre value, every returned item carries
\* that genre in its genre list, compared case-insensitively.
C2_GenreModeFilters ==
    (Returned /\ GenreModeWithValue)
        => \A p \in 1..Len(Recs) :
               Lower(request.filter_genre) \in Range(LowerAll(Recs[p].genres))

\* a genre-mode call whose result went through the coverage and the cap pass
C2_Witness ==
    /\ Returned
    /\ GenreModeWithValue
    /\ CoverageRan
    /\ CapRan
    /\ Recs # <<>>

\* C3: recommend() returns at most top_k recommendations.
C3_AtMostTopK == Returned => Len(Recs) <= request.top_k

\* a full list returned by the cap pass out of more candidates than top_k
C3_Witness ==
    /\ Returned
    /\ CoverageRan
    /\ CapRan
    /\ Len(Recs) = request.top_k

ColdStart ==
    /\ prefs.liked_movie_ids = <<>>
    /\ prefs.preferred_genres = <<>>
    /\ prefs.services = <<>>

ScoresNonIncreasing ==
    \A p \in 1..(Len(Recs) - 1) : Recs[p].score >= Recs[p + 1].score

ExactColdStartList ==
    /\ Recs # <<>>
    /\ Len(Recs) = Min2(request.top_k, NumMovies(catalog))
    /\ ScoresNonIncreasing

\* one of the hard mode filters of recommend() is in force
ModeFilterInForce ==
    \/ request.mode = "genre" /\ Truthy(request.filter_genre)
    \/ request.mode = "service" /\ Truthy(request.filter_service)
    \/ request.mode = "year" /\ Truthy(request.filter_year_bucket)
    \/ request.mode = "runtime" /\ Truthy(request.filter_runtime_bucket)

\* C4 as stated: on cold start (liked_movie_ids, preferred_genres and services
\* all empty) recommend() returns a non-empty list of exactly
\* min(top_k, catalog size) items in non-increasing score order.
C4_ColdStartExactCount == (Returned /\ ColdStart) => ExactColdStartList

\* C4 amended: the same, on a cold start where disliked_movie_ids and
\* not_interested_ids are empty too and no hard mode filter is in force.
C4_ColdStartNoExclusions ==
    (/\ Returned
     /\ ColdStart
     /\ prefs.disliked_movie_ids = <<>>
     /\ prefs.not_interested_ids = <<>>
     /\ ~ModeFilterInForce) => ExactColdStartList

\* a cold start without exclusions that returned top_k of a larger catalog
C4_Witness ==
    /\ Returned
    /\ ColdStart
    /\ prefs.disliked_movie_ids = <<>>
    /\ prefs.not_interested_ids = <<>>
    /\ ~ModeFilterInForce
    /\ request.top_k >= 2
    /\ Len(Recs) = request.top_k
    /\ NumMovies(catalog) > request.top_k

\* C5: a second call of recommend() with the same preferences, mode, mode
\* parameters, top_k and catalog returns what the first call returned: the
\* same items in the same order with the same scores and explanations.
C5_RepeatIdentical == calls >= 2 => result = previous

\* two calls were made and returned recommendations
C5_Witness == calls >= 2 /\ Returned /\ Recs # <<>>

\* ceil(top_k * 0.5)
HalfCeil(k) == (k + 1) \div 2

GenresReturned == UNION {Range(Recs[p].genres) : p \in 1..Len(Recs)}

CarryCount(g) == Cardinality({p \in 1..Len(Recs) : g \in Range(Recs[p].genres)})

\* C6: for non-empty preferred_genres and top_k >= 6, no single genre is
\* carried by more than ceil(top_k * 0.5) of the returned items.
C6_GenreShareCapped ==
    (Returned /\ prefs.preferred_genres # <<>> /\ request.top_k >= 6)
        => \A g \in GenresReturned : CarryCount(g) <= HalfCeil(request.top_k)

\* C7: every score emitted by recommend() is a finite real or null, never NaN
\* or +/-Inf.
C7_ScoresFinite ==
    Returned => \A p \in 1..Len(Recs) : Recs[p].score \notin {NaN, PosInf, NegInf}

NonFinitePopularityIds ==
    {catalog.movies_meta[i].movieId : i \in
        {j \in 1..NumMovies(catalog) : catalog.movies_meta[j].popularity \in {NaN, PosInf}}}

\* a movie whose popularity in the metadata is NaN or Inf was returned
C7_Witness == Returned /\ RecIds \cap NonFinitePopularityIds # {}

\* an unknown mode, a mode without its parameter, or an unknown bucket name
UsageError ==
    \/ request.mode \notin RecMode
    \/ request.mode = "genre" /\ ~Truthy(request.filter_genre)
    \/ request.mode = "service" /\ ~Truthy(request.filter_service)
    \/ request.mode = "year" /\ request.filter_year_bucket \notin YearBuckets
    \/ request.mode = "runtime" /\ request.filter_runtime_bucket \notin RuntimeBuckets

\* C8: a request that names an unknown mode, or selects mode
\* genre/service/year/runtime without that mode's parameter or with an unknown
\* bucket name, is reported as a usage error and never served.
C8_UsageErrorReported ==
    (calls >= 1 /\ UsageError) => (result.outcome = "usage error" /\ Recs = <<>>)

\* C9: for any user signal, including liked IDs absent from the catalog,
\* preferred genres absent from the genre vocabulary and an all-zero profile,
\* build_user_profile() returns a profile vector and recommend() returns a
\* list without raising.
C9_NeverRaises ==
    calls >= 1 =>
        /\ result.outcome = "returned"
        /\ Len(BuildUserProfile(catalog, prefs).num) = FeatureDim(catalog)


PreferredLower == Range(LowerAll(prefs.preferred_genres))

CarriesPreferred(genres) == NonEmptyLower(genres) \cap PreferredLower # {}

\* a call returned recommendations for a signal with a liked ID that is not in
\* the catalog, a preferred genre that is not in the genre vocabulary, and a
\* profile vector that is all zero
C9_Witness ==
    /\ Returned
    /\ Range(prefs.liked_movie_ids) \ MovieIds(catalog) # {}
    /\ PreferredLower \ Range(LowerAll(catalog.genre_classes)) # {}
    /\ \A d \in 1..FeatureDim(catalog) : BuildUserProfile(catalog, prefs).num[d] = 0
    /\ Recs # <<>>

DefaultModeWithPreferredGenres ==
    Returned /\ prefs.preferred_genres # <<>> /\ request.mode = "because_liked"

RuntimeBoundsSet == prefs.runtime_min # None /\ prefs.runtime_max # None

\* the catalog row of the p-th returned recommendation
MovieOf(p) == catalog.movies_meta[result.final_indices[p]]

HasRuntime(movie) == movie.runtime \notin {Missing, None, NaN, PosInf, NegInf}

WithinRuntimeBounds(r) == prefs.runtime_min <= r /\ r <= prefs.runtime_max

Eligible(idx) ==
    /\ catalog.movies_meta[idx].movieId \notin HardExcludedIds
    /\ ModeFilter(catalog.movies_meta[idx], request)

EligibleRanked ==
    KeepIn(result.top_indices, {idx \in 1..NumMovies(catalog) : Eligible(idx)})

MatchesNoSoftPreference(movie) ==
    /\ ~CarriesPreferred(SplitPipe(movie.genres))
    /\ Range(SplitPipe(movie.services)) \cap Range(prefs.services) = {}
    /\ HasRuntime(movie) /\ ~WithinRuntimeBounds(movie.runtime)
    /\ Lower(movie.original_language) \notin Range(LowerAll(prefs.languages))

LikedResolves ==
    \E i \in 1..Len(prefs.liked_movie_ids) : prefs.liked_movie_ids[i] \in MovieIds(catalog)

GenreInVocabulary == PreferredLower \cap Range(LowerAll(catalog.genre_classes)) # {}

\* feature d summed over the liked IDs that resolve in the catalog
LikedSum(d) ==
    SumSeq([i \in 1..Len(prefs.liked_movie_ids) |->
               IF prefs.liked_movie_ids[i] \in MovieIds(catalog)
               THEN ItemFeatures(catalog, MovieIdToIdx(catalog)[prefs.liked_movie_ids[i]])[d]
               ELSE 0])

LikedCount ==
    Cardinality({i \in 1..Len(prefs.liked_movie_ids) : prefs.liked_movie_ids[i] \in MovieIds(catalog)})

\* 1 at the genre columns of the preferred genres, 0 elsewhere
BoostAt(d) ==
    IF /\ d > catalog.tfidf_size
       /\ d <= catalog.tfidf_size + Len(catalog.genre_classes)
       /\ Lower(catalog.genre_classes[d - catalog.tfidf_size]) \in PreferredLower
    THEN 1 ELSE 0

CatalogSum(d) == SumSeq([i \in 1..NumMovies(catalog) |-> ItemFeatures(catalog, i)[d]])

\* the profile the four cases name, as a numerator vector over a denominator
ProfileBySignal ==
    IF LikedResolves /\ GenreInVocabulary
    THEN [num |-> [d \in 1..FeatureDim(catalog) |-> 4 * LikedSum(d) + LikedCount * BoostAt(d)],
          den |-> 5 * LikedCount]
    ELSE IF LikedResolves
    THEN [num |-> [d \in 1..FeatureDim(catalog) |-> LikedSum(d)], den |-> LikedCount]
    ELSE IF GenreInVocabulary
    THEN [num |-> [d \in 1..FeatureDim(catalog) |-> BoostAt(d)], den |-> 1]
    ELSE [num |-> [d \in 1..FeatureDim(catalog) |-> CatalogSum(d)], den |-> NumMovies(catalog)]

SameVector(a, b) ==
    /\ Len(a.num) = Len(b.num)
    /\ \A d \in 1..Len(a.num) : a.num[d] * b.den = b.num[d] * a.den

\* C19: build_user_profile() selects the profile by which inputs exist:
\* 0.8*base + 0.2*genre_boost when a liked ID resolves in the catalog and a
\* preferred genre is in the genre vocabulary, base alone when only the former
\* holds, genre_boost alone when only the latter holds, and the mean feature
\* vector of the whole catalog when neither holds.
C19_ProfileBySignal ==
    calls >= 1
        => /\ BuildUserProfile(catalog, prefs).den > 0
           /\ SameVector(BuildUserProfile(catalog, prefs), ProfileBySignal)

\* liked_ids is not empty but no ID resolves and no preferred genre is in the
\* vocabulary: the profile is the (non-zero) mean of the catalog
C19_Witness ==
    /\ calls >= 1
    /\ prefs.liked_movie_ids # <<>>
    /\ prefs.preferred_genres # <<>>
    /\ ~LikedResolves
    /\ ~GenreInVocabulary
    /\ \E d \in 1..FeatureDim(catalog) : BuildUserProfile(catalog, prefs).num[d] # 0

ItemGenresLower(movie) == {Lower(g) : g \in Range(movie.genres)}

\* 0.5 * Jaccard, 0 when either set is empty
JaccardShare(movie) ==
    IF ItemGenresLower(movie) = {} \/ PreferredLower = {} THEN 0
    ELSE (500 * Cardinality(ItemGenresLower(movie) \cap PreferredLower))
            \div Cardinality(ItemGenresLower(movie) \cup PreferredLower)

ServiceShare(movie) ==
    IF Range(movie.services) \cap Range(prefs.services) # {} THEN 250 ELSE 0

RuntimeShare(movie) ==
    IF ~HasRuntime(movie) THEN 75
    ELSE IF /\ (prefs.runtime_min = None \/ movie.runtime >= prefs.runtime_min)
            /\ (prefs.runtime_max = None \/ movie.runtime <= prefs.runtime_max)
    THEN 150 ELSE 0

LanguageShare(movie) ==
    IF Lower(movie.original_language) \in Range(LowerAll(prefs.languages)) THEN 100 ELSE 0

AlignmentOf(idx) == ComputePreferenceAlignment(catalog, idx, prefs)

\* C20: compute_preference_alignment() returns 0.5 * Jaccard(item genres,
\* preferred genres, case-insensitive, 0 when either set is empty) + 0.25 if
\* the services intersect + 0.15 if the runtime is within the bounds or the
\* bounds are unset (0.075 when the runtime is missing or non-finite) + 0.10
\* if the item's language is a preferred language, and lies in [0, 1].
C20_AlignmentFormula ==
    calls >= 1
        => \A idx \in 1..NumMovies(catalog) :
               LET movie == catalog.movies_meta[idx]
               IN /\ AlignmentOf(idx) = JaccardShare(movie) + ServiceShare(movie)
                                          + RuntimeShare(movie) + LanguageShare(movie)
                  /\ AlignmentOf(idx) >= 0
                  /\ AlignmentOf(idx) <= Scale

\* one movie earns all four shares in full (alignment 1), another has a
\* partial genre overlap, a third has no runtime
C20_Witness ==
    /\ calls >= 1
    /\ \E idx \in 1..NumMovies(catalog) : AlignmentOf(idx) = Scale
    /\ \E idx \in 1..NumMovies(catalog) :
           JaccardShare(catalog.movies_meta[idx]) \in 1..499
    /\ \E idx \in 1..NumMovies(catalog) :
           ~HasRuntime(catalog.movies_meta[idx]) /\ AlignmentOf(idx) >= 75

\* what the call returns when no other call runs
AloneResult ==
    RecommendResult(catalog, popularity_scores, prefs, request,
                    RandomDraw(Seed42(rng), NumMovies(catalog)))

\* C13: under every interleaving of recommend() calls that run in parallel
\* threads, each call returns exactly the result it returns when run alone.
C13_ThreadsUnaffected ==
    \A t \in DOMAIN thread_pc : thread_pc[t] = "done" => thread_result[t] = AloneResult

ServedRecommendations == response.op = "get_recommendations" /\ response.status = 200

ServedIds == {response.recommendations[p].movie_id : p \in 1..Len(response.recommendations)}

\* C14: once a user has recorded 'not_interested' for a movie, the movie is
\* in no later GET /api/recommendations response for that user, whatever
\* feedback the user records afterwards and whatever mode is requested.
C14_NotInterestedNeverServed ==
    ServedRecommendations
        => \A m \in ServedIds : <<response.user_id, m>> \notin history.not_interested

\* recommendations were served to a user who marked a movie not interested
\* and then changed the signal for it to like
C14_Witness ==
    /\ ServedRecommendations
    /\ response.recommendations # <<>>
    /\ \E m \in FeedbackMovieChoices :
           /\ <<response.user_id, m>> \in history.not_interested
           /\ history.last_signal[<<response.user_id, m>>] = "like"

RowCount(user_id, movie_id) ==
    BagCardinality([r \in FeedbackOf(user_feedback, user_id, movie_id) |-> CopiesIn(r, user_feedback)])

SignalSet(user_id, signal) ==
    Range(MovieIdsWithSignal(FeedbackRecords(user_feedback, user_id), signal))

\* C15: after any sequence of record_feedback calls there is at most one
\* feedback record per (user, movie), its signal is the signal of the most
\* recent call for that pair, and each movie is in at most one of the user's
\* liked, disliked and not_interested sets.
C15_FeedbackUpsert ==
    history # <<>> =>
        /\ \A pair \in FeedbackPairs :
               IF history.last_signal[pair] = "none"
               THEN RowCount(pair[1], pair[2]) = 0
               ELSE /\ RowCount(pair[1], pair[2]) = 1
                    /\ FeedbackOf(user_feedback, pair[1], pair[2])
                          = {FeedbackRow(pair[1], pair[2], history.last_signal[pair])}
        /\ \A u \in {1, 2} :
               /\ SignalSet(u, "like") \cap SignalSet(u, "dislike") = {}
               /\ SignalSet(u, "like") \cap SignalSet(u, "not_interested") = {}
               /\ SignalSet(u, "dislike") \cap SignalSet(u, "not_interested") = {}

\* a user changed the signal for a movie (from not_interested to dislike) and
\* has feedback on a second movie
C15_Witness ==
    /\ response.op = "record_feedback"
    /\ response.status = 200
    /\ <<response.user_id, response.movie_id>> \in history.not_interested
    /\ response.signal = "dislike"
    /\ BagCardinality(user_feedback) >= 3

WatchlistRowCount(user_id, movie_id) ==
    BagCardinality([r \in WatchlistOf(watchlist_items, user_id, movie_id) |->
                       CopiesIn(r, watchlist_items)])

AddAnswered == response.op = "add_to_watchlist" /\ response.status = 200

\* a step that answers a POST /api/watchlist for a movie already on the list
AddOfListedMovie ==
    /\ response'.op = "add_to_watchlist"
    /\ response'.status = 200
    /\ WatchlistOf(watchlist_items, response'.user_id, response'.movie_id) # {}

\* C16: POST /api/watchlist for a movie already on the user's watchlist
\* creates no new row and returns the existing item, so after any sequence of
\* add, remove and mark-watched calls there is at most one watchlist row per
\* (user, movie).
C16_AddIdempotent ==
    /\ [](\A u \in UserIdChoices, m \in WatchlistMovieChoices : WatchlistRowCount(u, m) <= 1)
    /\ [][AddOfListedMovie =>
             /\ watchlist_items' = watchlist_items
             /\ response'.item =
                    WatchlistItemResponse(
                        catalog,
                        FirstWatchlistRow(watchlist_items, response'.user_id, response'.movie_id))]_vars

\* a movie that was on the list, already marked watched and saved under
\* another title, was added again: the answer is the item as it was
C16_Witness ==
    /\ AddAnswered
    /\ history.on_list_before
    /\ response.item.watched
    /\ response.item.title = "Heat"
    /\ WatchlistRowCount(response.user_id, response.movie_id) = 1
    /\ BagCardinality(watchlist_items) >= 2

\* the movies added for the user (an add answered 200) and not removed since
AddedFor(user_id) == {m \in MemoryMovieChoices : <<user_id, m>> \in history.added}

\* C17: for the in-memory watchlist, after any sequence of add, remove and
\* mark_watched calls the count that get_watchlist returns for a user is the
\* number of distinct catalog movies added for that user and not removed
\* since; remove and mark_watched on a movie that is not in the list answer
\* 404 and leave every watchlist unchanged.
C17_CountTracksAdds ==
    /\ [](\A u \in MemoryUserChoices :
              /\ WatchlistCount(watchlists, u) = Cardinality(AddedFor(u))
              /\ AddedFor(u) \subseteq MovieIds(catalog))
    /\ [][(response'.op = "get_watchlist")
              => response'.count = Cardinality(AddedFor(response'.user_id))]_vars
    /\ [][(\E u \in MemoryUserChoices, m \in MemoryMovieChoices :
                  /\ ~InList(watchlists, u, m)
                  /\ response'.op \in {"remove_from_watchlist", "mark_watched"}
                  /\ response'.user_id = u
                  /\ response'.movie_id = m)
              => (response'.status = 404 /\ watchlists' = watchlists)]_vars

\* a removal of a movie that is not in the list was answered 404 while one
\* user had two movies listed and the other had added and removed one
C17_Witness ==
    /\ response.op = "remove_from_watchlist"
    /\ response.status = 404
    /\ \E u \in MemoryUserChoices : WatchlistCount(watchlists, u) = 2
    /\ \E u \in MemoryUserChoices : u \in DOMAIN watchlists /\ WatchlistCount(watchlists, u) = 0

UsersWithEmail(user_rows, email) == {u \in user_rows : u.email = email}

PreferencesOf(pref_rows, user_id) == {p \in pref_rows : p.user_id = user_id}

\* the step answered the call of history' for an email that had a user
IdentifiedExisting ==
    LET old == CHOOSE u \in users : u.email = history'.email
        name == history'.name
        expected == IF NonBlank(name) /\ Strip(name) # old.name
                    THEN [old EXCEPT !.name = Strip(name)]
                    ELSE old
    IN /\ response'.status = 200
       /\ response'.user = expected
       /\ users' = (users \ {old}) \cup {expected}
       /\ user_preferences' = user_preferences

\* the step answered the call of history' for an email that had no user
IdentifiedUnknown ==
    IF ~NonBlank(history'.name)
    THEN /\ response'.status = 404
         /\ users' = users
         /\ user_preferences' = user_preferences
    ELSE /\ response'.status = 200
         /\ response'.user \notin users
         /\ response'.user.email = history'.email
         /\ response'.user.name = Strip(history'.name)
         /\ \A u \in users : u.id # response'.user.id
         /\ users' = users \cup {response'.user}
         /\ Cardinality(user_preferences') = Cardinality(user_preferences) + 1
         /\ \E p \in user_preferences' \ user_preferences :
               /\ user_preferences' = user_preferences \cup {p}
               /\ p = DefaultPreferences(p.id, response'.user.id)

\* C18: identify_user never creates a second user for an email. A call
\* with an existing email returns the existing user, changing only its name
\* when a different non-blank name is given; a call with an unknown email
\* and no or a blank name answers 404 and creates no user and no
\* preferences; a call with an unknown email and a name creates exactly one
\* user together with its default preferences row.
C18_IdentifyByEmail ==
    /\ [](\A email \in EmailChoices : Cardinality(UsersWithEmail(users, email)) <= 1)
    /\ [](\A u \in users : Cardinality(PreferencesOf(user_preferences, u.id)) = 1)
    /\ [][(response'.op = "identify_user")
              => IF UsersWithEmail(users, history'.email) # {}
                 THEN IdentifiedExisting
                 ELSE IdentifiedUnknown]_vars

\* with two users stored, the first one was identified again under another
\* name, given with a leading blank
C18_Witness ==
    /\ Cardinality(users) = 2
    /\ Cardinality(user_preferences) = 2
    /\ response.op = "identify_user"
    /\ response.status = 200
    /\ history.name = " Bob"
    /\ response.user.name = "Bob"
    /\ response.user.id = 1

IsNumber(x) == x \notin {NaN, PosInf, NegInf, None, Missing}

BucketMovie == catalog.movies_meta[1]

\* C21 as stated: every year is accepted by exactly one year bucket of
\* filter_by_year_bucket() and every positive runtime by exactly one runtime
\* bucket of filter_by_runtime_bucket().
C21_BucketsPartition ==
    /\ (result.outcome = "year buckets" /\ IsNumber(BucketMovie.year) /\ BucketMovie.year > 0)
          => Cardinality(result.accepted) = 1
    /\ (result.outcome = "runtime buckets" /\ IsNumber(BucketMovie.runtime)
            /\ BucketMovie.runtime > 0)
          => Cardinality(result.accepted) = 1

\* C21: every positive runtime is accepted by exactly one runtime bucket;
\* every year from 1 on is accepted by at least one year bucket, and by
\* exactly one unless it is 2018 or 2019, which both 'recent' and '2010s'
\* accept.
C21_BucketsCover ==
    /\ (result.outcome = "runtime buckets" /\ IsNumber(BucketMovie.runtime)
            /\ BucketMovie.runtime > 0)
          => Cardinality(result.accepted) = 1
    /\ (result.outcome = "year buckets" /\ IsNumber(BucketMovie.year) /\ BucketMovie.year > 0)
          => IF BucketMovie.year \in {2018, 2019}
             THEN result.accepted = {"recent", "2010s"}
             ELSE Cardinality(result.accepted) = 1

\* the year buckets of a movie of 2018 were computed
C21_Witness ==
    /\ result.outcome = "year buckets"
    /\ BucketMovie.year = 2018
    /\ BucketMovie.runtime = 90
    /\ result.accepted = {"recent", "2010s"}

CarriesGenre(movie, genre) == genre \in NonEmptyLower(SplitPipe(movie.genres))

\* C22: when top_k is at least the number of preferred genres, for every
\* preferred genre carried by at least one candidate that survived filtering,
\* the list returned by recommend() contains at least one item carrying that
\* genre.
C22_GenreCoverage ==
    (Returned /\ request.top_k >= Len(prefs.preferred_genres))
        => \A genre \in PreferredLower :
              (\E q \in 1..Len(result.filtered_indices) :
                    CarriesGenre(catalog.movies_meta[result.filtered_indices[q]], genre))
                 => \E p \in 1..Len(result.final_indices) :
                       CarriesGenre(catalog.movies_meta[result.final_indices[p]], genre)

\* C27: the legacy POST /api/recommendations answers a request that carries
\* no user_id with status 400 and computes no recommendations for it.
C27_LegacyRequiresUserId ==
    (response.op = "get_recommendations_legacy" /\ ~Truthy(history.body.user_id))
        => (response.status = 400 /\ "recommendations" \notin DOMAIN response)

Capped == result.outcome = "capped"

\* the primary genre the cap pass gives the p-th admitted movie
AdmittedPrimary(p) ==
    PrimaryGenre(catalog.movies_meta[result.final_indices[p]], LowerAll(prefs.preferred_genres))

\* how many of the movies admitted before the p-th have its primary genre
RunningCount(p) == Cardinality({q \in 1..(p - 1) : AdmittedPrimary(q) = AdmittedPrimary(p)})

AdmittedBelowCap ==
    \A p \in 1..Len(result.final_indices) : RunningCount(p) < result.max_per_genre

\* C23 as stated: the per-genre cap equals max(3, ceil(top_k * 0.5)) for every
\* top_k >= 1, and the cap pass admits an item only while the running count of
\* its primary genre is below that cap.
C23_CapIsHalfCeil ==
    Capped => (/\ result.max_per_genre = Max2(3, HalfCeil(request.top_k))
               /\ AdmittedBelowCap)

\* C23: the per-genre cap is 3 up to top_k = 7 and the largest integer that is
\* at most top_k * 0.5 from there on (the half is rounded down, not up), and
\* the cap pass admits an item only while the running count of its primary
\* genre is below that cap.
C23_CapIsHalfFloor ==
    Capped => (/\ IF request.top_k <= 7
                  THEN result.max_per_genre = 3
                  ELSE /\ 2 * result.max_per_genre <= request.top_k
                       /\ request.top_k < 2 * result.max_per_genre + 2
               /\ AdmittedBelowCap)

\* with top_k = 7 the cap pass turned away a fourth comedy
C23_Witness ==
    /\ Capped
    /\ request.top_k = 7
    /\ result.max_per_genre = 3
    /\ Cardinality({p \in 1..Len(result.final_indices) : AdmittedPrimary(p) = "comedy"}) = 3
    /\ Len(result.final_indices) < Len(result.covered_indices)
    /\ Len(result.final_indices) < request.top_k

\* C24: in the cap pass, an item whose genre list is empty is skipped
\* entirely: it is never admitted to the result and never counted toward any
\* genre.
C24_NoGenreSkipped ==
    Capped => \A p \in 1..Len(result.final_indices) :
                 catalog.movies_meta[result.final_indices[p]].genres # <<>>

\* the reasons the explanation of a recommendation is to be composed of
ExpectedReasons(rec) ==
    LET named ==
            (IF CarriesPreferred(rec.genres)
             THEN <<"Matches your preferred genres">> ELSE <<>>)
            \o (IF Range(rec.services) \cap Range(prefs.services) # {}
                THEN <<"Available on">> ELSE <<>>)
            \o (IF prefs.liked_movie_ids # <<>>
                THEN <<"Similar to movies you've liked">> ELSE <<>>)
    IN IF named = <<>> THEN <<"Popular">> ELSE named

ReasonsGiven(rec) == [i \in 1..Len(rec.explanation) |-> rec.explanation[i].reason]

\* C25: generate_explanation() returns a non-empty string composed, in this
\* order, of the genre-match reason exactly when the item carries a preferred
\* genre (compared case-insensitively), the service-match reason exactly when
\* the item is on a preferred service, and the liked-similarity reason exactly
\* when liked_movie_ids is non-empty; the 'Popular' fallback appears exactly
\* when none of the three applies.
C25_ExplanationReasons ==
    Returned => \A p \in 1..Len(Recs) :
                   /\ Recs[p].explanation # <<>>
                   /\ ReasonsGiven(Recs[p]) = ExpectedReasons(Recs[p])

HasYear(movie) == movie.year \notin {Missing, None, NaN, PosInf, NegInf}

\* the catalog row with the defaults in the place of a missing year or runtime
WithDefaults(movie) ==
    [movie EXCEPT !.year = IF HasYear(movie) THEN movie.year ELSE DefaultYear,
                  !.runtime = IF HasRuntime(movie) THEN movie.runtime ELSE DefaultRuntime]

DefaultsFilled(cat) ==
    [cat EXCEPT !.movies_meta =
        [i \in 1..Len(cat.movies_meta) |-> WithDefaults(cat.movies_meta[i])]]

YearsFilled(cat) ==
    [cat EXCEPT !.movies_meta =
        [i \in 1..Len(cat.movies_meta) |->
            [cat.movies_meta[i] EXCEPT !.year = WithDefaults(cat.movies_meta[i]).year]]]

\* C26 as stated: an item whose year or runtime is missing is treated as year
\* 2000 / runtime 120 everywhere in the pipeline, so recommend() returns what
\* it returns on the catalog that has 2000 and 120 in the place of the
\* missing values.
C26_DefaultsEverywhere ==
    Returned =>
        LET filled == DefaultsFilled(catalog)
        IN Recs = RecommendResult(filled, ComputeNormalizedPopularity(filled), prefs, request,
                                  RandomDraw(Seed42(rng), NumMovies(catalog))).recommendations

\* C26: a missing year counts as 2000 in the popularity score and a missing
\* year / runtime is emitted as 2000 / 120; the alignment score gives a
\* missing runtime the neutral half share whatever the bounds are, and the
\* year and runtime bucket filters reject an item whose year or runtime is
\* missing for every bucket.
C26_DefaultsWhereApplied ==
    Returned =>
        /\ popularity_scores = ComputeNormalizedPopularity(YearsFilled(catalog))
        /\ \A p \in 1..Len(Recs) :
              /\ Recs[p].year = WithDefaults(MovieOf(p)).year
              /\ Recs[p].runtime = WithDefaults(MovieOf(p)).runtime
        /\ \A i \in 1..NumMovies(catalog) :
              ~HasRuntime(catalog.movies_meta[i])
                 => RuntimeMatch(catalog.movies_meta[i], prefs) = 75
        /\ (request.mode = "year" /\ request.filter_year_bucket \in YearBuckets)
              => \A p \in 1..Len(Recs) : HasYear(MovieOf(p))
        /\ (request.mode = "runtime" /\ request.filter_runtime_bucket \in RuntimeBuckets)
              => \A p \in 1..Len(Recs) : HasRuntime(MovieOf(p))

\* in the year mode for the 2000s films were returned from a catalog that has
\* a film without a year, which no exclusion removed
C26_Witness ==
    /\ Returned
    /\ request.mode = "year"
    /\ request.filter_year_bucket = "2000s"
    /\ Recs # <<>>
    /\ \E i \in 1..NumMovies(catalog) :
          /\ ~HasYear(catalog.movies_meta[i])
          /\ ~HasRuntime(catalog.movies_meta[i])
          /\ catalog.movies_meta[i].movieId \notin HardExcludedIds
    /\ RuntimeBoundsSet

\* the catalog items that pass the hard rules of the call
PassingHardRules ==
    {i \in 1..NumMovies(catalog) :
        /\ ~Excluded(catalog.movies_meta[i], prefs)
        /\ ModeFilter(catalog.movies_meta[i], request)}

EnoughPass == Returned /\ Cardinality(PassingHardRules) >= request.top_k

\* C28 as stated: whenever at least top_k catalog items pass the hard rules,
\* recommend() returns exactly top_k recommendations.
C28_ExactlyTopK == EnoughPass => Len(Recs) = request.top_k

\* C28: whenever at least top_k catalog items pass the hard rules,
\* recommend() returns at most top_k recommendations, and exactly top_k when
\* the catalog has no more than 10 * top_k items and the cap pass does not
\* run; when the cap pass runs it returns at least min(top_k, 3).
C28_TopKUnlessCutOrCap ==
    EnoughPass =>
        /\ Len(Recs) <= request.top_k
        /\ (NumMovies(catalog) <= PreFilterFactor * request.top_k /\ ~CapRan)
              => Len(Recs) = request.top_k
        /\ CapRan => Len(Recs) >= Min2(request.top_k, MinPerGenreCap)

\* the filter loop stopped early at 3 * top_k of eleven candidates and the
\* call returned top_k of them
C28_Witness ==
    /\ EnoughPass
    /\ catalog = LongCatalog
    /\ NumMovies(catalog) <= PreFilterFactor * request.top_k
    /\ Len(result.filtered_indices) = EarlyStopFactor * request.top_k
    /\ Len(result.filtered_indices) < Cardinality(PassingHardRules)
    /\ ~CapRan
    /\ Len(Recs) = request.top_k

\* the cut to the 10 * top_k highest scores left no candidate although a movie
\* passes the hard rules
C28_CutShortens ==
    /\ EnoughPass
    /\ NumMovies(catalog) > PreFilterFactor * request.top_k
    /\ Recs = <<>>

\* C29: the list returned by recommend() never contains the same movie
\* twice: the seeds of the coverage pass are not added again by the fill
\* step, and the cap pass admits each candidate at most once.
C29_NoMovieTwice ==
    Returned =>
        /\ \A p, q \in 1..Len(Recs) : Recs[p].movie_id = Recs[q].movie_id => p = q
        /\ \A p, q \in 1..Len(result.covered_indices) :
              result.covered_indices[p] = result.covered_indices[q] => p = q

\* the coverage pass moved a seed ahead of better-scored candidates and the
\* cap pass chose a full list of at least three movies from its output
C29_Witness ==
    /\ Returned
    /\ CoverageRan
    /\ CapRan
    /\ result.covered_indices # Prefix(result.filtered_indices, Len(result.covered_indices))
    /\ Len(Recs) >= 3
    /\ Len(Recs) = request.top_k

\* C30: under concurrent requests, the check-then-insert of record_feedback
\* and of the persisted add_to_watchlist leaves at most one row per
\* (user, movie): no interleaving of two simultaneous requests for the same
\* user and movie produces two rows.
C30_OneRowUnderConcurrency ==
    /\ RowCount(RaceUserId, RaceMovieId) <= 1
    /\ WatchlistRowCount(RaceUserId, RaceMovieId) <= 1

====
